---- MODULE Spec2Model ----
(***************************************************************************)
(* Tiered cache core of a segment engine: a CacheSlot of cells in front    *)
(* of a Translator, the per-cell state machine (ListNode) and the global   *)
(* resource budget with its LRU of evictable cells (DList).                *)
(*                                                                         *)
(* CacheSlot, CacheCell and CellAccessor are translated from               *)
(* cachinglayer/CacheSlot.h.  ListNode and DList (lrucache/ListNode.h,     *)
(* lrucache/DList.h) are modelled from the design text, sections 4.1 and   *)
(* 4.2.                                                                    *)
(***************************************************************************)
EXTENDS Integers, Sequences, FiniteSets, TLC

\* ---------------------------------------------------------------- bounds
NumTasks == 2
NumCells == 2
MemLimit == 1
DiskLimit == 1
\* The number of pin calls (PinCells, PinAllCells) of a run.
MaxCalls == 4

Tasks == 1 .. NumTasks

\* cell_{nullptr}: the payload of a cell that holds nothing.
Null == 0

\* The slot of scenario S6 must hold cid 5.
S6Cid == 5

\* Scenario S7: the memory limit, the sizes of the two cells and the amount reserved.
S7Limit == 1000
S7SizeA == 600
S7SizeB == 500
S7Need == 700

VARIABLES
    num_cells,                \* translator_->num_cells(), fixed by the constructor
    cell_id_mapping_mode_,    \* IDENTICAL | ALWAYS_ZERO | CUSTOM
    size_,                    \* ListNode::size_ of every cell, fixed by the constructor
    cache_warmup_policy,      \* translator_->meta()->cache_warmup_policy
    state,                    \* ListNode::state_ of every cell
    pin_count,                \* ListNode::pin_count_ of every cell
    cell_,                    \* CacheCell::cell_: Null or the payload (named by the load that produced it)
    limit,                    \* DList: the configured budget
    used,                     \* DList: the amount debited against the budget
    lru,                      \* DList: evictable cells, least recently used first
    pc,                       \* where every caller is in PinCells / PinInternal / RunLoad
    cids,                     \* PinInternal: the cids of the call
    futures,                  \* PinInternal: the pin future of every cid of the call
    need_load_cids,           \* PinInternal: the cids whose pin() said need_load
    resource_needed,          \* PinInternal: the sum of their sizes
    reserve_resource_failure, \* RunLoad: the reservation failed
    results,                  \* RunLoad: results of get_cells not yet published
    catch_cids,               \* RunLoad: cids of the catch block not yet given set_error
    own_debit,                \* history: what the caller's running load debited minus what it released
    own_evicted,              \* history: what the caller's running reservation freed by eviction
    get_calls,                \* history: get_cells calls whose request held cid S6Cid (0, 1, 2 = several)
    calls,                    \* history: the pin calls made so far
    segment,                  \* the column a predicate runs over: its rows, chunks and indexes
    expr,                     \* PhyUnaryRangeFilterExpr: the members of one expression instance
    eval                      \* the last Eval call: its inputs, the strategy it ran, what it returned

exprVars == <<segment, expr, eval>>
cellVars == <<state, pin_count, cell_>>
budgetVars == <<used, lru>>
taskVars == <<pc, cids, futures, need_load_cids, resource_needed,
              reserve_resource_failure, results, catch_cids>>
histVars == <<own_debit, own_evicted, get_calls, calls>>
vars == <<num_cells, cell_id_mapping_mode_, size_, cache_warmup_policy, exprVars, limit, cellVars, budgetVars, taskVars, histVars>>

Cells == 0 .. (num_cells - 1)

\* ------------------------------------------------------- ResourceUsage
RU(m, d) == [memory_bytes |-> m, file_bytes |-> d]
Zero == RU(0, 0)
Plus(a, b) == RU(a.memory_bytes + b.memory_bytes, a.file_bytes + b.file_bytes)
Minus(a, b) == RU(a.memory_bytes - b.memory_bytes, a.file_bytes - b.file_bytes)
\* a >= b in every dimension
Covers(a, b) == a.memory_bytes >= b.memory_bytes /\ a.file_bytes >= b.file_bytes
Max0(x) == IF x > 0 THEN x ELSE 0

\* Translator::estimated_byte_size_of_cell of a slot of unit cells: every cell takes one
\* unit of memory, every second one a unit of disk too.
UnitSizes(n) == [c \in 0 .. (n - 1) |-> RU(1, c % 2)]

\* cells_[cid].size(): the size the constructor gave cell c.
EstSize(c) == size_[c]

RECURSIVE SumSize(_)
SumSize(S) == IF S = {} THEN Zero
              ELSE LET c == CHOOSE x \in S : TRUE
                   IN Plus(EstSize(c), SumSize(S \ {c}))

\* ------------------------------------------------------------ sequences
RECURSIVE SeqWithout(_, _)
SeqWithout(s, S) == IF s = <<>> THEN <<>>
                    ELSE IF Head(s) \in S THEN SeqWithout(Tail(s), S)
                    ELSE <<Head(s)>> \o SeqWithout(Tail(s), S)

SeqSet(s) == {s[i] : i \in 1 .. Len(s)}

\* All orders of a finite set
Perms(S) == {s \in [1 .. Cardinality(S) -> S] : SeqSet(s) = S}

\* ------------------------------------------------------------- ListNode
\* Mutant of pin: a cell in ERROR stays there and fails the pinner.
pinErrorSticky(c) ==
    IF state[c] = "ERROR"
    THEN [need_load |-> FALSE, future |-> "error", state |-> "ERROR",
          pin_count |-> pin_count[c], lru |-> lru]
    ELSE IF state[c] = "LOADED"
    THEN [need_load |-> FALSE, future |-> "ok", state |-> "LOADED",
          pin_count |-> pin_count[c] + 1,
          lru |-> IF pin_count[c] = 0 THEN SeqWithout(lru, {c}) ELSE lru]
    ELSE [need_load |-> state[c] = "NOT_LOADED", future |-> "pending",
          state |-> "LOADING", pin_count |-> pin_count[c] + 1, lru |-> lru]

\* ListNode::pin on cell c: (need_load, future) and the cell afterwards.  A cell in
\* ERROR is reset to NOT_LOADED by the pin attempt and is then loaded again.
pin(c) ==
    IF state[c] = "LOADED"
    THEN [need_load |-> FALSE, future |-> "ok", state |-> "LOADED",
          pin_count |-> pin_count[c] + 1,
          lru |-> IF pin_count[c] = 0 THEN SeqWithout(lru, {c}) ELSE lru]
    ELSE [need_load |-> state[c] \in {"NOT_LOADED", "ERROR"}, future |-> "pending",
          state |-> "LOADING", pin_count |-> pin_count[c] + 1, lru |-> lru]

\* Mutant of mark_loaded: a LOADED cell is debited once more.
mark_loadedDebitsAgain(c, requesting_thread) ==
    CASE state[c] = "LOADING" ->
            [run_cb |-> TRUE, state |-> "LOADED", broadcast |-> TRUE,
             used |-> used, lru |-> lru]
      [] state[c] = "LOADED" ->
            [run_cb |-> FALSE, state |-> "LOADED", broadcast |-> FALSE,
             used |-> Plus(used, EstSize(c)), lru |-> lru]
      [] OTHER ->
            [run_cb |-> TRUE, state |-> "LOADED", broadcast |-> FALSE,
             used |-> Plus(used, EstSize(c)), lru |-> Append(lru, c)]

\* ListNode::mark_loaded on cell c: whether the callback runs, the state, whether the
\* awaiters are resolved, and the budget.  A cell nobody asked for (NOT_LOADED, or
\* ERROR) becomes LOADED unpinned: its size was never reserved, so it is debited here
\* and the cell enters the LRU.  A LOADED cell is left alone.
mark_loaded(c, requesting_thread) ==
    CASE state[c] = "LOADING" ->
            [run_cb |-> TRUE, state |-> "LOADED", broadcast |-> TRUE,
             used |-> used, lru |-> lru]
      [] state[c] = "LOADED" ->
            [run_cb |-> FALSE, state |-> "LOADED", broadcast |-> FALSE,
             used |-> used, lru |-> lru]
      [] OTHER ->
            [run_cb |-> TRUE, state |-> "LOADED", broadcast |-> FALSE,
             used |-> Plus(used, EstSize(c)), lru |-> Append(lru, c)]

\* ListNode::set_error on cell c: LOADING goes to ERROR, the awaiters fail and the pin
\* count is reset; in any other state nothing happens.
set_error_node(c) ==
    IF state[c] = "LOADING"
    THEN [state |-> "ERROR", broadcast |-> TRUE, pin_count |-> 0]
    ELSE [state |-> state[c], broadcast |-> FALSE, pin_count |-> pin_count[c]]

\* ListNode::manual_evict: the guard of an eviction.
can_evict(c) == state[c] = "LOADED" /\ pin_count[c] = 0

\* NodePin::~NodePin for the pins of the cells of s, in that order: decrement, and a
\* LOADED cell whose count reaches zero enters the LRU at the most recent end.
RECURSIVE unpin(_, _, _)
unpin(s, cnt, l) ==
    IF s = <<>> THEN [pin_count |-> cnt, lru |-> l]
    ELSE LET c == Head(s)
             n == cnt[c] - 1
         IN unpin(Tail(s), [cnt EXCEPT ![c] = n],
                  IF n = 0 /\ state[c] = "LOADED" THEN Append(l, c) ELSE l)

\* ---------------------------------------------------------------- DList
Fits(u, need) == Covers(limit, Plus(u, need))
Deficit(u, need) ==
    RU(Max0(u.memory_bytes + need.memory_bytes - limit.memory_bytes),
       Max0(u.file_bytes + need.file_bytes - limit.file_bytes))

\* Mutant of evict_until: the walk stops at its first victim.
evict_first(l, freed, at_least) ==
    IF l = <<>> \/ Covers(freed, at_least) THEN {}
    ELSE IF pin_count[Head(l)] = 0 THEN {Head(l)}
         ELSE {}

\* Mutant of evict_until: the walk goes on to the end of the list.
RECURSIVE evict_untilExhausted(_, _, _)
evict_untilExhausted(l, freed, at_least) ==
    IF l = <<>> THEN {}
    ELSE IF pin_count[Head(l)] = 0
         THEN {Head(l)} \cup evict_untilExhausted(Tail(l), Plus(freed, EstSize(Head(l))), at_least)
         ELSE evict_untilExhausted(Tail(l), freed, at_least)

\* DList evict_until(at_least): the cells unloaded by a walk of list l from the least
\* recently used, with `freed` freed so far.
RECURSIVE evict_until(_, _, _)
evict_until(l, freed, at_least) ==
    IF l = <<>> \/ Covers(freed, at_least) THEN {}
    ELSE IF pin_count[Head(l)] = 0
         THEN {Head(l)} \cup evict_until(Tail(l), Plus(freed, EstSize(Head(l))), at_least)
         ELSE evict_until(Tail(l), freed, at_least)

\* DList reserve_with_timeout, first attempt: debit at once if the need fits; if not,
\* evict for the deficit and try again.
reserve_attempt(need) ==
    IF Fits(used, need)
    THEN [ok |-> TRUE, evicted |-> {}, used |-> Plus(used, need)]
    ELSE LET victims == evict_until(lru, Zero, Deficit(used, need))
             after == Minus(used, SumSize(victims))
         IN IF Fits(after, need)
            THEN [ok |-> TRUE, evicted |-> victims, used |-> Plus(after, need)]
            ELSE [ok |-> FALSE, evicted |-> victims, used |-> after]

\* DList release(amount)
release(amount) == Minus(used, amount)

\* ------------------------------------------------------------ CacheCell
\* Mutant of unload: the payload is kept.
unloadKeepsCell(c) == cell_[c]

\* CacheCell::unload: the payload is dropped.
unload(c) == Null

\* Mutant of set_cell: the payload is stored whatever mark_loaded decides.
set_cellOverwrites(c, payload, requesting_thread) ==
    LET m == mark_loaded(c, requesting_thread)
    IN [cell_ |-> payload,
        state |-> m.state, broadcast |-> m.broadcast, used |-> m.used, lru |-> m.lru]

\* CacheCell::set_cell: the callback handed to mark_loaded stores the payload.
set_cell(c, payload, requesting_thread) ==
    LET m == mark_loaded(c, requesting_thread)
    IN [cell_ |-> IF m.run_cb THEN payload ELSE cell_[c],
        state |-> m.state, broadcast |-> m.broadcast, used |-> m.used, lru |-> m.lru]

\* ------------------------------------------------------------ CacheSlot
\* Translator::cell_id_of under CUSTOM: two uids per cell.
translator_cell_id_of(uid) == uid \div 2

\* CacheSlot::cell_id_of
cell_id_of(uid) ==
    CASE cell_id_mapping_mode_ = "IDENTICAL" -> uid
      [] cell_id_mapping_mode_ = "ALWAYS_ZERO" -> 0
      [] OTHER -> translator_cell_id_of(uid)

\* Mutant of involved_cids: under ALWAYS_ZERO cid 0 is taken without looking at uids.
involved_cidsZeroAlways(uids) ==
    CASE cell_id_mapping_mode_ = "IDENTICAL" -> SeqSet(uids)
      [] cell_id_mapping_mode_ = "ALWAYS_ZERO" -> {0}
      [] OTHER -> {cell_id_of(uids[i]) : i \in 1 .. Len(uids)}

\* CacheSlot::PinCells: the involved cids of a uid vector.
involved_cids(uids) ==
    CASE cell_id_mapping_mode_ = "IDENTICAL" -> SeqSet(uids)
      [] cell_id_mapping_mode_ = "ALWAYS_ZERO" -> IF Len(uids) > 0 THEN {0} ELSE {}
      [] OTHER -> {cell_id_of(uids[i]) : i \in 1 .. Len(uids)}

NoFutures == [c \in Cells |-> "none"]

\* Mutant of PinInternal: one loop that checks and pins, so the cids in range are
\* pinned although another cid of the call is out of range.
PinInternalChecksInLoop(t, cs) ==
    /\ pc[t] = "idle"
    /\ calls < MaxCalls
    /\ calls' = calls + 1
    /\ pc' = [pc EXCEPT ![t] = IF cs \cap Cells = {} THEN "collect" ELSE "pin"]
    /\ cids' = [cids EXCEPT ![t] = cs \cap Cells]
    /\ futures' = [futures EXCEPT ![t] = NoFutures]
    /\ need_load_cids' = [need_load_cids EXCEPT ![t] = {}]
    /\ resource_needed' = [resource_needed EXCEPT ![t] = Zero]
    /\ UNCHANGED <<num_cells, cell_id_mapping_mode_, size_, cache_warmup_policy, exprVars, limit, cellVars, budgetVars,
                   reserve_resource_failure, results, catch_cids, own_debit, own_evicted,
                   get_calls>>

\* CacheSlot::PinInternal up to its pin loop: the range check, then the empty futures.
PinInternal(t, cs) ==
    /\ pc[t] = "idle"
    /\ calls < MaxCalls
    /\ calls' = calls + 1
    /\ IF \E c \in cs : c >= num_cells
       THEN UNCHANGED <<pc, cids, futures, need_load_cids, resource_needed>>
       ELSE /\ pc' = [pc EXCEPT ![t] = IF cs = {} THEN "collect" ELSE "pin"]
            /\ cids' = [cids EXCEPT ![t] = cs]
            /\ futures' = [futures EXCEPT ![t] = NoFutures]
            /\ need_load_cids' = [need_load_cids EXCEPT ![t] = {}]
            /\ resource_needed' = [resource_needed EXCEPT ![t] = Zero]
    /\ UNCHANGED <<num_cells, cell_id_mapping_mode_, size_, cache_warmup_policy, exprVars, limit, cellVars, budgetVars,
                   reserve_resource_failure, results, catch_cids, own_debit, own_evicted,
                   get_calls>>

\* Mutant of PinCells: the call goes straight to the Translator for its cids, without
\* asking each cell's pin() whether a load is needed.
PinCellsLoadsAlways(t, uids) ==
    /\ pc[t] = "idle"
    /\ calls < MaxCalls
    /\ calls' = calls + 1
    /\ \A c \in involved_cids(uids) : c < num_cells /\ state[c] # "LOADED"
    /\ involved_cids(uids) # {}
    /\ pc' = [pc EXCEPT ![t] = "reserve"]
    /\ cids' = [cids EXCEPT ![t] = involved_cids(uids)]
    /\ futures' = [futures EXCEPT
                      ![t] = [c \in Cells |-> IF c \in involved_cids(uids)
                                              THEN "pending" ELSE "none"]]
    /\ state' = [c \in Cells |-> IF c \in involved_cids(uids) THEN "LOADING" ELSE state[c]]
    /\ pin_count' = [c \in Cells |-> IF c \in involved_cids(uids)
                                     THEN pin_count[c] + 1 ELSE pin_count[c]]
    /\ need_load_cids' = [need_load_cids EXCEPT ![t] = involved_cids(uids)]
    /\ resource_needed' = [resource_needed EXCEPT ![t] = SumSize(involved_cids(uids))]
    /\ UNCHANGED <<num_cells, cell_id_mapping_mode_, size_, cache_warmup_policy, exprVars, limit, cell_, budgetVars,
                   reserve_resource_failure, results, catch_cids, own_debit, own_evicted,
                   get_calls>>

\* CacheSlot::PinCells
PinCells(t, uids) == PinInternal(t, involved_cids(uids))

\* CacheSlot::PinAllCells
PinAllCells(t) == PinInternal(t, Cells)

\* Warmup: the uid vector 0 .. num_cells-1 it hands to PinCells.
AllUids == [i \in 1 .. num_cells |-> i - 1]

\* CacheSlot::Warmup, run by caller t: nothing under the Disable policy, else PinCells
\* on every uid; the accessor it gets is a temporary, dropped by DropAccessor.
Warmup(t) ==
    IF cache_warmup_policy = "Disable"
    THEN pc[t] = "idle" /\ UNCHANGED vars
    ELSE PinCells(t, AllUids)

\* Mutant of AddNeedLoad: the cid is taken into the need-load set whatever pin() said.
AddNeedLoadAlways(set, c, need_load) == set \cup {c}

\* PinInternal: what one pin() adds to need_load_cids and to resource_needed.
AddNeedLoad(set, c, need_load) == IF need_load THEN set \cup {c} ELSE set
\* Mutant of AddResource: every cell of the call is counted.
AddResourceAlways(r, c, need_load) == Plus(r, EstSize(c))

AddResource(r, c, need_load) == IF need_load THEN Plus(r, EstSize(c)) ELSE r

\* Mutant of PinOne: the pin is taken but the LRU list is left as it was.
PinOneKeepsLru(t, c) ==
    /\ pc[t] = "pin"
    /\ c \in cids[t]
    /\ futures[t][c] = "none"
    /\ LET p == pin(c)
           need == AddNeedLoad(need_load_cids[t], c, p.need_load)
           last == \A d \in cids[t] \ {c} : futures[t][d] # "none"
       IN /\ state' = [state EXCEPT ![c] = p.state]
          /\ pin_count' = [pin_count EXCEPT ![c] = p.pin_count]
          /\ lru' = lru
          /\ futures' = [futures EXCEPT ![t][c] = p.future]
          /\ need_load_cids' = [need_load_cids EXCEPT ![t] = need]
          /\ resource_needed' = [resource_needed EXCEPT
                                    ![t] = AddResource(@, c, p.need_load)]
          /\ pc' = [pc EXCEPT ![t] = IF ~last THEN "pin"
                                     ELSE IF need # {} THEN "reserve" ELSE "collect"]
          /\ reserve_resource_failure' = [reserve_resource_failure EXCEPT ![t] = FALSE]
    /\ UNCHANGED <<num_cells, cell_id_mapping_mode_, size_, cache_warmup_policy, exprVars, limit, cell_, used, cids, results,
                   catch_cids,  histVars>>

\* PinInternal, one round of the pin loop: cells_[cid].pin().  After the last round
\* RunLoad follows if any cell needs loading.
PinOne(t, c) ==
    /\ pc[t] = "pin"
    /\ c \in cids[t]
    /\ futures[t][c] = "none"
    /\ LET p == pin(c)
           need == AddNeedLoad(need_load_cids[t], c, p.need_load)
           last == \A d \in cids[t] \ {c} : futures[t][d] # "none"
       IN /\ state' = [state EXCEPT ![c] = p.state]
          /\ pin_count' = [pin_count EXCEPT ![c] = p.pin_count]
          /\ lru' = p.lru
          /\ futures' = [futures EXCEPT ![t][c] = p.future]
          /\ need_load_cids' = [need_load_cids EXCEPT ![t] = need]
          /\ resource_needed' = [resource_needed EXCEPT
                                    ![t] = AddResource(@, c, p.need_load)]
          /\ pc' = [pc EXCEPT ![t] = IF ~last THEN "pin"
                                     ELSE IF need # {} THEN "reserve" ELSE "collect"]
          /\ reserve_resource_failure' = [reserve_resource_failure EXCEPT ![t] = FALSE]
    /\ UNCHANGED <<num_cells, cell_id_mapping_mode_, size_, cache_warmup_policy, exprVars, limit, cell_, used, cids, results,
                   catch_cids,  histVars>>

\* The awaiters of cell c are resolved with res.
Broadcast(c, res) ==
    [u \in Tasks |-> [futures[u] EXCEPT ![c] = IF @ = "pending" THEN res ELSE @]]

\* Mutant of ReserveAttempt: RunLoad goes on to the Translator without looking at
\* reservation_success.
ReserveAttemptUnchecked(t) ==
    /\ pc[t] = "reserve"
    /\ LET r == reserve_attempt(resource_needed[t])
       IN /\ state' = [c \in Cells |-> IF c \in r.evicted THEN "NOT_LOADED" ELSE state[c]]
          /\ cell_' = [c \in Cells |-> IF c \in r.evicted THEN unload(c) ELSE cell_[c]]
          /\ lru' = SeqWithout(lru, r.evicted)
          /\ used' = r.used
          /\ own_evicted' = [own_evicted EXCEPT ![t] = Plus(@, SumSize(r.evicted))]
          /\ own_debit' = [own_debit EXCEPT
                              ![t] = IF r.ok THEN Plus(@, resource_needed[t]) ELSE @]
          /\ pc' = [pc EXCEPT ![t] = "get_cells"]
    /\ UNCHANGED <<num_cells, cell_id_mapping_mode_, size_, cache_warmup_policy, exprVars, limit, pin_count, cids, futures,
                   need_load_cids, resource_needed, reserve_resource_failure, results,
                   catch_cids, get_calls, calls>>

\* RunLoad: dlist_->reserveMemoryWithTimeout, first attempt.  Evicted cells are unloaded.
ReserveAttempt(t) ==
    /\ pc[t] = "reserve"
    /\ LET r == reserve_attempt(resource_needed[t])
       IN /\ state' = [c \in Cells |-> IF c \in r.evicted THEN "NOT_LOADED" ELSE state[c]]
          /\ cell_' = [c \in Cells |-> IF c \in r.evicted THEN unload(c) ELSE cell_[c]]
          /\ lru' = SeqWithout(lru, r.evicted)
          /\ used' = r.used
          /\ own_evicted' = [own_evicted EXCEPT ![t] = Plus(@, SumSize(r.evicted))]
          /\ own_debit' = [own_debit EXCEPT
                              ![t] = IF r.ok THEN Plus(@, resource_needed[t]) ELSE @]
          /\ pc' = [pc EXCEPT ![t] = IF r.ok THEN "get_cells" ELSE "reserve_wait"]
    /\ UNCHANGED <<num_cells, cell_id_mapping_mode_, size_, cache_warmup_policy, exprVars, limit, pin_count, cids, futures,
                   need_load_cids, resource_needed, reserve_resource_failure, results,
                   catch_cids, get_calls, calls>>

\* reserveMemoryWithTimeout, a wake of the waiting caller: the debit is tried again.
ReserveRetry(t) ==
    /\ pc[t] = "reserve_wait"
    /\ Fits(used, resource_needed[t])
    /\ used' = Plus(used, resource_needed[t])
    /\ own_debit' = [own_debit EXCEPT ![t] = Plus(@, resource_needed[t])]
    /\ pc' = [pc EXCEPT ![t] = "get_cells"]
    /\ UNCHANGED <<num_cells, cell_id_mapping_mode_, size_, cache_warmup_policy, exprVars, limit, cellVars, lru, cids, futures,
                   need_load_cids, resource_needed, reserve_resource_failure, results,
                   catch_cids, own_evicted, get_calls, calls>>

\* reserveMemoryWithTimeout times out: RunLoad sets reserve_resource_failure and throws
\* InsufficientResource into its catch block.
ReserveTimeout(t) ==
    /\ pc[t] = "reserve_wait"
    /\ reserve_resource_failure' = [reserve_resource_failure EXCEPT ![t] = TRUE]
    /\ catch_cids' = [catch_cids EXCEPT ![t] = need_load_cids[t]]
    /\ pc' = [pc EXCEPT ![t] = "catch"]
    /\ UNCHANGED <<num_cells, cell_id_mapping_mode_, size_, cache_warmup_policy, exprVars, limit, cellVars, budgetVars, cids, futures,
                   need_load_cids, resource_needed, results,  histVars>>

Count(n) == IF n < 2 THEN n + 1 ELSE 2

\* Mutant of GetCells: the Translator is called once for every cell to load.
GetCellsOneByOne(t, extra) ==
    /\ pc[t] = "get_cells"
    /\ extra \subseteq Cells \ need_load_cids[t]
    /\ \E c \in need_load_cids[t] \ results[t] :
          /\ results' = [results EXCEPT ![t] = @ \cup {c} \cup extra]
          /\ pc' = [pc EXCEPT ![t] = IF need_load_cids[t] \subseteq results'[t]
                                     THEN "set_cell" ELSE "get_cells"]
    /\ get_calls' = IF S6Cid \in need_load_cids[t] THEN Count(get_calls) ELSE get_calls
    /\ UNCHANGED <<num_cells, cell_id_mapping_mode_, size_, cache_warmup_policy, exprVars, limit, cellVars, budgetVars, cids, futures,
                   need_load_cids, resource_needed, reserve_resource_failure, catch_cids,
                   own_debit, own_evicted, calls>>

\* Mutant of GetCells: the Translator leaves out one of the requested cells.
GetCellsPartial(t, extra) ==
    /\ pc[t] = "get_cells"
    /\ extra \subseteq Cells \ need_load_cids[t]
    /\ LET left == CHOOSE c \in need_load_cids[t] : TRUE
           got == (need_load_cids[t] \ {left}) \cup extra
       IN /\ results' = [results EXCEPT ![t] = got]
          /\ pc' = [pc EXCEPT ![t] = IF got = {} THEN "collect" ELSE "set_cell"]
    /\ get_calls' = IF S6Cid \in need_load_cids[t] THEN Count(get_calls) ELSE get_calls
    /\ UNCHANGED <<num_cells, cell_id_mapping_mode_, size_, cache_warmup_policy, exprVars, limit, cellVars, budgetVars, cids, futures,
                   need_load_cids, resource_needed, reserve_resource_failure, catch_cids,
                   own_debit, own_evicted, calls>>

\* RunLoad: translator_->get_cells(cids_vec) returns the requested cells and the cells
\* of extra.
GetCells(t, extra) ==
    /\ pc[t] = "get_cells"
    /\ extra \subseteq Cells \ need_load_cids[t]
    /\ results' = [results EXCEPT ![t] = need_load_cids[t] \cup extra]
    /\ get_calls' = IF S6Cid \in need_load_cids[t] THEN Count(get_calls) ELSE get_calls
    /\ pc' = [pc EXCEPT ![t] = "set_cell"]
    /\ UNCHANGED <<num_cells, cell_id_mapping_mode_, size_, cache_warmup_policy, exprVars, limit, cellVars, budgetVars, cids, futures,
                   need_load_cids, resource_needed, reserve_resource_failure, catch_cids,
                   own_debit, own_evicted, calls>>

\* RunLoad: translator_->get_cells throws.
GetCellsThrow(t) ==
    /\ pc[t] = "get_cells"
    /\ catch_cids' = [catch_cids EXCEPT ![t] = need_load_cids[t]]
    /\ get_calls' = IF S6Cid \in need_load_cids[t] THEN Count(get_calls) ELSE get_calls
    /\ pc' = [pc EXCEPT ![t] = "catch"]
    /\ UNCHANGED <<num_cells, cell_id_mapping_mode_, size_, cache_warmup_policy, exprVars, limit, cellVars, budgetVars, cids, futures,
                   need_load_cids, resource_needed, reserve_resource_failure, results,
                   own_debit, own_evicted, calls>>

\* RunLoad: whether set_cell is told that the caller asked for the cell.
IsRequesting(t, c) == c \in need_load_cids[t]

\* RunLoad, one round of the loop over the results: cells_[cid].set_cell(...).
SetCellOne(t, c) ==
    /\ pc[t] = "set_cell"
    /\ c \in results[t]
    /\ LET r == set_cell(c, t, IsRequesting(t, c))
       IN /\ cell_' = [cell_ EXCEPT ![c] = r.cell_]
          /\ state' = [state EXCEPT ![c] = r.state]
          /\ used' = r.used
          /\ lru' = r.lru
          /\ futures' = IF r.broadcast THEN Broadcast(c, "ok") ELSE futures
    /\ results' = [results EXCEPT ![t] = @ \ {c}]
    /\ pc' = [pc EXCEPT ![t] = IF results[t] = {c} THEN "collect" ELSE "set_cell"]
    /\ UNCHANGED <<num_cells, cell_id_mapping_mode_, size_, cache_warmup_policy, exprVars, limit, pin_count, cids, need_load_cids,
                   resource_needed, reserve_resource_failure, catch_cids, 
                   histVars>>

\* Mutant of ShouldRelease: the catch block releases whatever happened before.
ShouldReleaseAlways(t) == TRUE

\* RunLoad, catch block: the reservation is given back unless it was never made.
ShouldRelease(t) == ~reserve_resource_failure[t]

\* RunLoad, catch block, one round of the loop: cells_[cid].set_error(ew).
SetErrorOne(t, c) ==
    /\ pc[t] = "catch"
    /\ c \in catch_cids[t]
    /\ LET e == set_error_node(c)
       IN /\ state' = [state EXCEPT ![c] = e.state]
          /\ pin_count' = [pin_count EXCEPT ![c] = e.pin_count]
          /\ futures' = IF e.broadcast THEN Broadcast(c, "error") ELSE futures
    /\ catch_cids' = [catch_cids EXCEPT ![t] = @ \ {c}]
    /\ pc' = [pc EXCEPT ![t] = IF catch_cids[t] # {c} THEN "catch"
                               ELSE IF ShouldRelease(t) THEN "release" ELSE "collect"]
    /\ UNCHANGED <<num_cells, cell_id_mapping_mode_, size_, cache_warmup_policy, exprVars, limit, cell_, budgetVars, cids,
                   need_load_cids, resource_needed, reserve_resource_failure, results,  histVars>>

\* Mutant of ReleaseMemory: the catch block ends without giving the reservation back.
ReleaseNothing(t) ==
    /\ pc[t] = "release"
    /\ pc' = [pc EXCEPT ![t] = "collect"]
    /\ UNCHANGED <<num_cells, cell_id_mapping_mode_, size_, cache_warmup_policy, exprVars, limit, cellVars, budgetVars, cids,
                   futures, need_load_cids, resource_needed, reserve_resource_failure,
                   results, catch_cids, histVars>>

\* RunLoad, catch block: dlist_->releaseMemory(resource_needed).
ReleaseMemory(t) ==
    /\ pc[t] = "release"
    /\ used' = release(resource_needed[t])
    /\ own_debit' = [own_debit EXCEPT ![t] = Minus(@, resource_needed[t])]
    /\ pc' = [pc EXCEPT ![t] = "collect"]
    /\ UNCHANGED <<num_cells, cell_id_mapping_mode_, size_, cache_warmup_policy, exprVars, limit, cellVars, lru, cids, futures,
                   need_load_cids, resource_needed, reserve_resource_failure, results,
                   catch_cids, own_evicted, get_calls, calls>>

PinnedBy(t) == {c \in cids[t] : futures[t][c] = "ok"}

\* Mutant of Collect: a call that ends with an error keeps the pins it got.
CollectKeepsPins(t, order) ==
    /\ pc[t] = "collect"
    /\ \A c \in cids[t] : futures[t][c] \in {"ok", "error"}
    /\ order \in Perms(PinnedBy(t))
    /\ IF \A c \in cids[t] : futures[t][c] = "ok"
       THEN /\ pc' = [pc EXCEPT ![t] = "holding"]
            /\ UNCHANGED <<cids, futures>>
       ELSE /\ pc' = [pc EXCEPT ![t] = "idle"]
            /\ cids' = [cids EXCEPT ![t] = {}]
            /\ futures' = [futures EXCEPT ![t] = NoFutures]
    /\ need_load_cids' = [need_load_cids EXCEPT ![t] = {}]
    /\ resource_needed' = [resource_needed EXCEPT ![t] = Zero]
    /\ reserve_resource_failure' = [reserve_resource_failure EXCEPT ![t] = FALSE]
    /\ own_debit' = [own_debit EXCEPT ![t] = Zero]
    /\ own_evicted' = [own_evicted EXCEPT ![t] = Zero]
    /\ UNCHANGED <<num_cells, cell_id_mapping_mode_, size_, cache_warmup_policy, exprVars, limit, cellVars, budgetVars, results,
                   catch_cids, get_calls, calls>>

\* PinInternal: SemiInlineGet(folly::collect(futures)), once every future is resolved.
\* All pins: the CellAccessor is made.  Any error: the call throws and the pins it got
\* are destroyed, in the order `order`.
Collect(t, order) ==
    /\ pc[t] = "collect"
    /\ \A c \in cids[t] : futures[t][c] \in {"ok", "error"}
    /\ order \in Perms(PinnedBy(t))
    /\ IF \A c \in cids[t] : futures[t][c] = "ok"
       THEN /\ pc' = [pc EXCEPT ![t] = "holding"]
            /\ need_load_cids' = [need_load_cids EXCEPT ![t] = {}]
            /\ resource_needed' = [resource_needed EXCEPT ![t] = Zero]
            /\ UNCHANGED <<pin_count, lru, cids, futures>>
       ELSE /\ LET u == unpin(order, pin_count, lru)
               IN pin_count' = u.pin_count /\ lru' = u.lru
            /\ pc' = [pc EXCEPT ![t] = "idle"]
            /\ cids' = [cids EXCEPT ![t] = {}]
            /\ futures' = [futures EXCEPT ![t] = NoFutures]
            /\ need_load_cids' = [need_load_cids EXCEPT ![t] = {}]
            /\ resource_needed' = [resource_needed EXCEPT ![t] = Zero]
    /\ reserve_resource_failure' = [reserve_resource_failure EXCEPT ![t] = FALSE]
    /\ own_debit' = [own_debit EXCEPT ![t] = Zero]
    /\ own_evicted' = [own_evicted EXCEPT ![t] = Zero]
    /\ UNCHANGED <<num_cells, cell_id_mapping_mode_, size_, cache_warmup_policy, exprVars, limit, state, cell_, used, results,
                   catch_cids, get_calls, calls>>

\* Mutant of DropAccessor: the accessor goes away without destroying its pins.
DropAccessorLeaks(t, order) ==
    /\ pc[t] = "holding"
    /\ order \in Perms(cids[t])
    /\ pc' = [pc EXCEPT ![t] = "idle"]
    /\ cids' = [cids EXCEPT ![t] = {}]
    /\ futures' = [futures EXCEPT ![t] = NoFutures]
    /\ need_load_cids' = [need_load_cids EXCEPT ![t] = {}]
    /\ resource_needed' = [resource_needed EXCEPT ![t] = Zero]
    /\ UNCHANGED <<num_cells, cell_id_mapping_mode_, size_, cache_warmup_policy, exprVars, limit, cellVars, budgetVars,
                   reserve_resource_failure, results, catch_cids, histVars>>

\* ~CellAccessor: pins_ is destroyed, in the order `order`.
DropAccessor(t, order) ==
    /\ pc[t] = "holding"
    /\ order \in Perms(cids[t])
    /\ LET u == unpin(order, pin_count, lru)
       IN pin_count' = u.pin_count /\ lru' = u.lru
    /\ pc' = [pc EXCEPT ![t] = "idle"]
    /\ cids' = [cids EXCEPT ![t] = {}]
    /\ futures' = [futures EXCEPT ![t] = NoFutures]
    /\ need_load_cids' = [need_load_cids EXCEPT ![t] = {}]
    /\ resource_needed' = [resource_needed EXCEPT ![t] = Zero]
    /\ UNCHANGED <<num_cells, cell_id_mapping_mode_, size_, cache_warmup_policy, exprVars, limit, state, cell_, used,
                   reserve_resource_failure, results, catch_cids,  histVars>>

\* The cells of S are evicted: unloaded, out of the LRU, their sizes released.
Evicted(S) ==
    /\ state' = [c \in Cells |-> IF c \in S THEN "NOT_LOADED" ELSE state[c]]
    /\ cell_' = [c \in Cells |-> IF c \in S THEN unload(c) ELSE cell_[c]]
    /\ lru' = SeqWithout(lru, S)
    /\ used' = release(SumSize(S))

\* Mutant of ManualEvict: the cell is unloaded without asking the node for its pins.
ManualEvictPinned(c) ==
    /\ c \in Cells
    /\ Evicted(IF state[c] = "LOADED" THEN {c} ELSE {})
    /\ UNCHANGED <<num_cells, cell_id_mapping_mode_, size_, cache_warmup_policy, exprVars, limit, pin_count, taskVars, histVars>>

\* CacheSlot::ManualEvict(cid): cells_[cid].manual_evict()
ManualEvict(c) ==
    /\ c \in Cells
    /\ Evicted(IF can_evict(c) THEN {c} ELSE {})
    /\ UNCHANGED <<num_cells, cell_id_mapping_mode_, size_, cache_warmup_policy, exprVars, limit, pin_count, taskVars, histVars>>

\* CacheSlot::ManualEvict(cid): the value it returns, that of manual_evict().
ManualEvictReturns(c) == can_evict(c)

\* CacheSlot::ManualEvictAll
ManualEvictAll ==
    /\ Evicted({c \in Cells : can_evict(c)})
    /\ UNCHANGED <<num_cells, cell_id_mapping_mode_, size_, cache_warmup_policy, exprVars, limit, pin_count, taskVars, histVars>>

\* ----------------------------------------------------------- the system
MaxUids == 2
Modes == {"IDENTICAL", "ALWAYS_ZERO", "CUSTOM"}

\* uid vectors a caller may pass: up to MaxUids uids, one of them past the last cell
UidSeqs == UNION {[1 .. n -> 0 .. num_cells] : n \in 0 .. MaxUids}

\* The budgets a slot may be built on: both dimensions, or memory only (no disk).
Limits == {RU(MemLimit, DiskLimit), RU(MemLimit, 0)}

\* The slot after its constructor, with n cells and mapping mode m, on budget b.
\* The slot after its constructor: n cells of the given sizes, mapping mode m, warmup
\* policy w, on budget b.
SlotOn(n, m, b, sizes, w) ==
    /\ num_cells = n
    /\ size_ = sizes
    /\ cache_warmup_policy = w
    /\ cell_id_mapping_mode_ = m
    /\ limit = b
    /\ state = [c \in 0 .. (n - 1) |-> "NOT_LOADED"]
    /\ pin_count = [c \in 0 .. (n - 1) |-> 0]
    /\ cell_ = [c \in 0 .. (n - 1) |-> Null]
    /\ used = Zero
    /\ lru = <<>>
    /\ pc = [t \in Tasks |-> "idle"]
    /\ cids = [t \in Tasks |-> {}]
    /\ futures = [t \in Tasks |-> [c \in 0 .. (n - 1) |-> "none"]]
    /\ need_load_cids = [t \in Tasks |-> {}]
    /\ resource_needed = [t \in Tasks |-> Zero]
    /\ reserve_resource_failure = [t \in Tasks |-> FALSE]
    /\ results = [t \in Tasks |-> {}]
    /\ catch_cids = [t \in Tasks |-> {}]
    /\ own_debit = [t \in Tasks |-> Zero]
    /\ own_evicted = [t \in Tasks |-> Zero]
    /\ get_calls = 0
    /\ calls = 0

\* No predicate is being evaluated.
NoExpr ==
    /\ segment = <<>>
    /\ expr = <<>>
    /\ eval = <<>>

\* The slot after its constructor, with no predicate running beside it.
ConstructedOn(n, m, b, sizes, w) == SlotOn(n, m, b, sizes, w) /\ NoExpr

\* The slot after its constructor, with warmup disabled.
ConstructedWith(n, m, b, sizes) == ConstructedOn(n, m, b, sizes, "Disable")

\* The slot after its constructor, with n unit cells.
Constructed(n, m, b) == ConstructedWith(n, m, b, UnitSizes(n))

Init == \E b \in Limits : Constructed(NumCells, "IDENTICAL", b)

Next ==
    \/ \E t \in Tasks : \E uids \in UidSeqs : PinCells(t, uids)
    \/ \E t \in Tasks : PinAllCells(t)
    \/ \E t \in Tasks : \E c \in Cells : PinOne(t, c)
    \/ \E t \in Tasks : ReserveAttempt(t)
    \/ \E t \in Tasks : ReserveRetry(t)
    \/ \E t \in Tasks : ReserveTimeout(t)
    \/ \E t \in Tasks : \E extra \in SUBSET Cells : GetCells(t, extra)
    \/ \E t \in Tasks : GetCellsThrow(t)
    \/ \E t \in Tasks : \E c \in Cells : SetCellOne(t, c)
    \/ \E t \in Tasks : \E c \in Cells : SetErrorOne(t, c)
    \/ \E t \in Tasks : ReleaseMemory(t)
    \/ \E t \in Tasks : \E order \in Perms(PinnedBy(t)) : Collect(t, order)
    \/ \E t \in Tasks : \E order \in Perms(cids[t]) : DropAccessor(t, order)
    \/ \E c \in Cells : ManualEvict(c)
    \/ ManualEvictAll

Spec == Init /\ [][Next]_vars

\* The steps of caller t that its executor runs without further input: everything
\* between the call and the resolution of its future.  A wait for the budget is bounded
\* by the timeout, so a waiting caller always has a step.
TaskStep(t) ==
    \/ \E c \in Cells : PinOne(t, c)
    \/ ReserveAttempt(t)
    \/ ReserveRetry(t)
    \/ ReserveTimeout(t)
    \/ \E extra \in SUBSET Cells : GetCells(t, extra)
    \/ GetCellsThrow(t)
    \/ \E c \in Cells : SetCellOne(t, c)
    \/ \E c \in Cells : SetErrorOne(t, c)
    \/ ReleaseMemory(t)
    \/ \E order \in Perms(PinnedBy(t)) : Collect(t, order)

\* Every started call is run to its end by the executor.
FairSpec == Spec /\ \A t \in Tasks : WF_vars(TaskStep(t))

\* A slot whose budget holds both cells at once.
WideMemLimit == 2
InitWide == Constructed(NumCells, "IDENTICAL", RU(WideMemLimit, DiskLimit))

SpecWide == InitWide /\ [][Next]_vars

\* A slot built with any of the mapping modes.
InitModes == \E m \in Modes : Constructed(NumCells, m, RU(MemLimit, DiskLimit))

SpecModes == InitModes /\ [][Next]_vars

\* The values the warmup policy may hold: the two enumerators and any other value.
WarmupPolicies == {"Disable", "Sync", "Other"}

\* A slot built with any warmup policy, whose callers run Warmup.
InitWarmup ==
    \E w \in WarmupPolicies :
        ConstructedOn(NumCells, "IDENTICAL", RU(MemLimit, DiskLimit), UnitSizes(NumCells), w)

NextWarmup ==
    \/ \E t \in Tasks : Warmup(t)
    \/ \E t \in Tasks : \E c \in Cells : PinOne(t, c)
    \/ \E t \in Tasks : ReserveAttempt(t)
    \/ \E t \in Tasks : ReserveRetry(t)
    \/ \E t \in Tasks : ReserveTimeout(t)
    \/ \E t \in Tasks : \E extra \in SUBSET Cells : GetCells(t, extra)
    \/ \E t \in Tasks : GetCellsThrow(t)
    \/ \E t \in Tasks : \E c \in Cells : SetCellOne(t, c)
    \/ \E t \in Tasks : \E c \in Cells : SetErrorOne(t, c)
    \/ \E t \in Tasks : ReleaseMemory(t)
    \/ \E t \in Tasks : \E order \in Perms(PinnedBy(t)) : Collect(t, order)
    \/ \E t \in Tasks : \E order \in Perms(cids[t]) : DropAccessor(t, order)

SpecWarmup == InitWarmup /\ [][NextWarmup]_vars

\* Scenario S6: a fresh slot that holds cid S6Cid, a Translator that does not throw,
\* and callers that each call pin_cells({S6Cid}) and keep their accessor.
InitS6 == Constructed(S6Cid + 1, "IDENTICAL", RU(MemLimit, DiskLimit))

NextS6 ==
    \/ \E t \in Tasks : PinCells(t, <<S6Cid>>)
    \/ \E t \in Tasks : \E c \in Cells : PinOne(t, c)
    \/ \E t \in Tasks : ReserveAttempt(t)
    \/ \E t \in Tasks : \E extra \in SUBSET Cells : GetCells(t, extra)
    \/ \E t \in Tasks : \E c \in Cells : SetCellOne(t, c)
    \/ \E t \in Tasks : \E order \in Perms(PinnedBy(t)) : Collect(t, order)

SpecS6 == InitS6 /\ [][NextS6]_vars

\* Scenario S7: a budget of S7Limit memory and no disk; a slot of three cells of
\* S7SizeA, S7SizeB and S7Need memory; callers pin cells, the Translator may over-read,
\* accessors are dropped, and a reservation that is short waits and times out (nothing
\* is released in this scenario, so no waiting reservation is woken).
S7Sizes == [c \in 0 .. 2 |-> RU(IF c = 0 THEN S7SizeA ELSE IF c = 1 THEN S7SizeB ELSE S7Need, 0)]

InitS7 == ConstructedWith(3, "IDENTICAL", RU(S7Limit, 0), S7Sizes)

NextS7 ==
    \/ \E t \in Tasks : \E uids \in UidSeqs : PinCells(t, uids)
    \/ \E t \in Tasks : \E c \in Cells : PinOne(t, c)
    \/ \E t \in Tasks : ReserveAttempt(t)
    \/ \E t \in Tasks : ReserveTimeout(t)
    \/ \E t \in Tasks : \E extra \in SUBSET Cells : GetCells(t, extra)
    \/ \E t \in Tasks : \E c \in Cells : SetCellOne(t, c)
    \/ \E t \in Tasks : \E c \in Cells : SetErrorOne(t, c)
    \/ \E t \in Tasks : \E order \in Perms(PinnedBy(t)) : Collect(t, order)
    \/ \E t \in Tasks : \E order \in Perms(cids[t]) : DropAccessor(t, order)

SpecS7 == InitS7 /\ [][NextS7]_vars

\* A budget of LruLimit memory and a slot of three cells, one of LruSizeA and two
\* of LruSizeB memory: the budget holds two cells and evicting the least recently
\* used of them can be enough for the third.  The Translator returns what it is
\* asked for.
LruLimit == 3
LruSizeA == 2
LruSizeB == 1
LruSizes == [c \in 0 .. 2 |-> RU(IF c = 0 THEN LruSizeA ELSE LruSizeB, 0)]

InitLru == ConstructedWith(3, "IDENTICAL", RU(LruLimit, 0), LruSizes)

NextLru ==
    \/ \E t \in Tasks : \E uids \in UidSeqs : PinCells(t, uids)
    \/ \E t \in Tasks : \E c \in Cells : PinOne(t, c)
    \/ \E t \in Tasks : ReserveAttempt(t)
    \/ \E t \in Tasks : ReserveTimeout(t)
    \/ \E t \in Tasks : GetCells(t, {})
    \/ \E t \in Tasks : \E c \in Cells : SetCellOne(t, c)
    \/ \E t \in Tasks : \E c \in Cells : SetErrorOne(t, c)
    \/ \E t \in Tasks : \E order \in Perms(PinnedBy(t)) : Collect(t, order)
    \/ \E t \in Tasks : \E order \in Perms(cids[t]) : DropAccessor(t, order)

SpecLru == InitLru /\ [][NextLru]_vars

\* The case of the note on set_cell: calls for cells 0 and 1 whose Translator
\* decides to fetch cell OverReadCid with whatever it is asked for, on a slot of
\* three cells of one unit of memory whose budget holds them all.
OverReadCid == 2
OverReadLimit == 3

InitOverRead ==
    ConstructedWith(OverReadCid + 1, "IDENTICAL", RU(OverReadLimit, 0),
                    [c \in 0 .. OverReadCid |-> RU(1, 0)])

NextOverRead ==
    \/ \E t \in Tasks : \E uids \in UidSeqs : PinCells(t, uids)
    \/ \E t \in Tasks : \E c \in Cells : PinOne(t, c)
    \/ \E t \in Tasks : ReserveAttempt(t)
    \/ \E t \in Tasks : GetCells(t, {OverReadCid} \ need_load_cids[t])
    \/ \E t \in Tasks : \E c \in Cells : SetCellOne(t, c)
    \/ \E t \in Tasks : \E order \in Perms(PinnedBy(t)) : Collect(t, order)
    \/ \E t \in Tasks : \E order \in Perms(cids[t]) : DropAccessor(t, order)

SpecOverRead == InitOverRead /\ [][NextOverRead]_vars


\* ================================================================ claims

\* The caller t still owes cell c a set_cell or a set_error: c is in its need-load set
\* and its RunLoad has not yet published or failed c.
LoadInFlight(t, c) ==
    /\ c \in need_load_cids[t]
    /\ \/ pc[t] \in {"pin", "reserve", "reserve_wait", "get_cells"}
       \/ pc[t] = "set_cell" /\ c \in results[t]
       \/ pc[t] = "catch" /\ c \in catch_cids[t]

Loaders(c) == {t \in Tasks : LoadInFlight(t, c)}

\* C1: each cell has at most one load in flight at any time.  A cell in LOADING has
\* exactly one caller that got need_load=true (the cell is in that caller's need-load
\* set); every other caller that pinned it meanwhile only waits on its broadcast.
C1_OneLoadInFlight ==
    \A c \in Cells :
        /\ Cardinality(Loaders(c)) <= 1
        /\ state[c] = "LOADING" => Cardinality(Loaders(c)) = 1
        /\ \A t \in Tasks : futures[t][c] = "pending" => state[c] = "LOADING"

\* C1, witness: two callers have pinned the same cell while it loads; one is its loader,
\* the other waits.
C1_Witness ==
    \E c \in Cells : \E t1, t2 \in Tasks :
        /\ t1 # t2
        /\ LoadInFlight(t1, c)
        /\ futures[t2][c] = "pending"
        /\ c \notin need_load_cids[t2]

\* C2: a cell that is LOADED with pin count above zero is LOADED with the same payload
\* after every step: no eviction (ManualEvict, ManualEvictAll, the eviction of a
\* reservation) unloads it.
C2_PinnedNeverEvicted ==
    [][\A c \in Cells :
          (state[c] = "LOADED" /\ pin_count[c] > 0)
              => (state'[c] = "LOADED" /\ cell_'[c] = cell_[c])]_vars

\* C2, witness: a reservation waits, short of budget, although unloading a LOADED cell
\* would have made it fit: the cell is pinned and its eviction walk left it alone.
C2_Witness ==
    \E c \in Cells : \E t \in Tasks :
        /\ state[c] = "LOADED" /\ pin_count[c] > 0
        /\ pc[t] = "reserve_wait"
        /\ Fits(Minus(used, EstSize(c)), resource_needed[t])

\* The sizes of the LOADED cells.
LoadedSum == SumSize({c \in Cells : state[c] = "LOADED"})

\* The reservations still outstanding: the cells that wait in LOADING for a load whose
\* caller has debited its need and not given it back.
ReservedSum ==
    SumSize({c \in Cells : state[c] = "LOADING" /\
                \E t \in Tasks : c \in need_load_cids[t] /\ own_debit[t] # Zero})

\* C3: in every reachable state the sizes of the LOADED cells plus the outstanding
\* reservations are within the budget limit, in memory and in disk.
C3_WithinBudget == Covers(limit, Plus(LoadedSum, ReservedSum))

\* The callers that hold a resolved pin on cell c, and those that still wait for it.
Holders(c) == {t \in Tasks : futures[t][c] = "ok"}
Awaiters(c) == {t \in Tasks : futures[t][c] = "pending"}

\* Each successful awaiter has a pin of its own: the pin count of a LOADED cell is the
\* number of resolved pins on it, that of a LOADING cell the number of its awaiters.
OwnPins ==
    \A c \in Cells :
        /\ state[c] = "LOADED" => pin_count[c] = Cardinality(Holders(c))
        /\ state[c] = "LOADING" => pin_count[c] = Cardinality(Awaiters(c))

\* A resolved future is never resolved again (it only ends with its call); the awaiters
\* of one cell are resolved in the same step with the same outcome, which is the state
\* the cell takes: a pin on the LOADED cell, or the error of the cell now in ERROR.
ResolvedOnceAlike ==
    \A c \in Cells : \A t \in Tasks :
        /\ futures[t][c] \in {"ok", "error"} => futures'[t][c] \in {futures[t][c], "none"}
        /\ futures[t][c] = "pending" =>
              /\ futures'[t][c] \in {"pending", "ok", "error"}
              /\ \A u \in Awaiters(c) : futures'[u][c] = futures'[t][c]
              /\ futures'[t][c] = "ok" => state'[c] = "LOADED" /\ cell_'[c] # Null
              /\ futures'[t][c] = "error" => state'[c] = "ERROR"

\* C4: every awaiter that attached to a cell before it became LOADED is resolved, and
\* exactly once, with a pin or with the load error; the awaiters of one load all get the
\* same outcome, and on success each holds a pin of its own.
C4_AwaitersResolvedAlike ==
    /\ []OwnPins
    /\ [][ResolvedOnceAlike]_vars
    /\ \A c \in 0 .. (NumCells - 1) : \A t \in Tasks :
          (futures[t][c] = "pending") ~> (futures[t][c] # "pending")

\* C4, witness: both callers pinned the same two cells while they loaded; one load
\* succeeded and both hold a pin on it, the other failed and both got its error.
C4_Witness ==
    \E c, d \in Cells :
        /\ \A t \in Tasks : futures[t][c] = "ok" /\ futures[t][d] = "error"
        /\ state[c] = "LOADED" /\ pin_count[c] = NumTasks

\* C5: manual_evict(cid) returns true if and only if the cell was LOADED with pin count 0
\* immediately before the call; when it returns true the cell is NOT_LOADED afterwards
\* and its payload is dropped; when it returns false the state, the pin count and the
\* payload of the cell are unchanged.
C5_ManualEvictEffect ==
    [][\A c \in Cells : ManualEvict(c) =>
          /\ ManualEvictReturns(c) <=> (state[c] = "LOADED" /\ pin_count[c] = 0)
          /\ ManualEvictReturns(c) =>
                state'[c] = "NOT_LOADED" /\ cell_'[c] = Null /\ pin_count'[c] = 0
          /\ ~ManualEvictReturns(c) =>
                state'[c] = state[c] /\ pin_count'[c] = pin_count[c] /\ cell_'[c] = cell_[c]
      ]_vars

\* C5, witness: one cell is LOADED and unpinned and manual_evict unloads it, another is
\* LOADED and pinned and manual_evict leaves it as it is.
C5_Witness ==
    \E c, d \in Cells :
        /\ state[c] = "LOADED" /\ pin_count[c] = 0 /\ cell_[c] # Null
        /\ ENABLED (ManualEvict(c) /\ state'[c] = "NOT_LOADED" /\ cell_'[c] = Null)
        /\ state[d] = "LOADED" /\ pin_count[d] > 0 /\ cell_[d] # Null
        /\ ENABLED (ManualEvict(d) /\ state'[d] = "LOADED" /\ cell_'[d] = cell_[d])

\* The caller t holds the CellAccessor its call resolved to.
AccessorAlive(t) == pc[t] = "holding"

\* C6: when a pin_cells call has resolved successfully every cell mapped from its uids
\* is LOADED with a non-null payload, and it stays LOADED with the same payload for as
\* long as the accessor is alive, whatever the other callers and evictions do.
C6_AccessorCellsStayLoaded ==
    /\ [](\A t \in Tasks : AccessorAlive(t) =>
              \A c \in cids[t] : state[c] = "LOADED" /\ cell_[c] # Null /\ pin_count[c] > 0)
    /\ [][\A t \in Tasks : (AccessorAlive(t) /\ AccessorAlive(t)') =>
              \A c \in cids[t] : state'[c] = "LOADED" /\ cell_'[c] = cell_[c]]_vars

\* C6, witness: a caller holds an accessor on a cell while another caller's load, which
\* read that cell too, is about to call set_cell on it with a payload of its own.
C6_Witness ==
    \E t, u \in Tasks : \E c \in Cells :
        /\ AccessorAlive(t) /\ c \in cids[t]
        /\ pc[u] = "set_cell" /\ c \in results[u] /\ cell_[c] # u

\* The callers attached to cell c: they wait for it or hold a resolved pin on it.
Attached(c) == {u \in Tasks : futures[u][c] \in {"pending", "ok"}}

\* After a failed reservation the load never reaches the Translator nor the release, and
\* it has debited nothing.
FailedReservationSkipsLoad ==
    \A t \in Tasks : reserve_resource_failure[t] =>
        /\ pc[t] \in {"catch", "collect"}
        /\ own_debit[t] = Zero

\* C7 (as stated): if the reservation of a load fails, get_cells is not called, every
\* cell of the need-load set receives set_error so that all its awaiters fail, and
\* nothing is released: the budget is the same after the failed load as before it.
C7_FailedReservationAsStated ==
    /\ [](FailedReservationSkipsLoad)
    /\ [](\A t \in Tasks : reserve_resource_failure[t] => own_evicted[t] = Zero)
    /\ [][\A t \in Tasks : \A c \in Cells :
            (reserve_resource_failure[t] /\ SetErrorOne(t, c)) =>
                /\ state'[c] = "ERROR"
                /\ \A u \in Attached(c) \cup {t} : futures'[u][c] = "error"
                /\ used' = used]_vars

\* C7 (amended): if the reservation of a load fails, get_cells is not called and
\* set_error is called on every cell of the need-load set.  A cell still LOADING goes to
\* ERROR and all its awaiters fail; a cell that another load's over-read has made LOADED
\* meanwhile stays LOADED and its awaiters keep their pins.  RunLoad releases nothing
\* and has debited nothing; what the failed reservation evicted stays evicted.
C7_FailedReservation ==
    /\ [](FailedReservationSkipsLoad)
    /\ [][\A t \in Tasks : \A c \in Cells :
            (reserve_resource_failure[t] /\ SetErrorOne(t, c)) =>
                /\ used' = used /\ cell_' = cell_
                /\ state[c] \in {"LOADING", "LOADED"}
                /\ state[c] = "LOADING" =>
                      /\ state'[c] = "ERROR"
                      /\ \A u \in Attached(c) \cup {t} : futures'[u][c] = "error"
                /\ state[c] = "LOADED" =>
                      /\ state'[c] = "LOADED" /\ pin_count'[c] = pin_count[c]
                      /\ futures' = futures /\ futures[t][c] = "ok"]_vars
    /\ [][\A t \in Tasks :
            (reserve_resource_failure[t] /\ ~reserve_resource_failure'[t]) =>
                /\ pc[t] = "collect" /\ used' = used
                /\ \A c \in need_load_cids[t] :
                      \/ futures[t][c] = "error"
                      \/ futures[t][c] = "ok" /\ state[c] = "LOADED"]_vars

\* C7, witness: a reservation failed after evicting a cell, and the failed load has
\* set the error on every cell of its need-load set.
C7_Witness ==
    \E t \in Tasks :
        /\ reserve_resource_failure[t] /\ pc[t] = "collect"
        /\ own_evicted[t] # Zero
        /\ need_load_cids[t] # {}
        /\ \A c \in need_load_cids[t] : futures[t][c] = "error"

\* get_cells has thrown after a successful reservation: set_error is called on every
\* cid of the need-load set (a cell still LOADING goes to ERROR), and then exactly the
\* amount the load had debited is released.
TranslatorFailureHandled ==
    \A t \in Tasks :
        /\ (pc[t] = "get_cells" /\ pc'[t] = "catch") =>
              catch_cids'[t] = need_load_cids[t] /\ need_load_cids[t] # {}
        /\ (pc[t] = "catch" /\ ~reserve_resource_failure[t]) =>
              /\ pc'[t] \in {"catch", "release"}
              /\ pc'[t] = "release" <=> (catch_cids'[t] = {} /\ catch_cids[t] # {})
              /\ \A c \in catch_cids[t] \ catch_cids'[t] :
                    state[c] = "LOADING" => state'[c] = "ERROR"
        /\ (pc[t] = "release" /\ pc'[t] # "release") =>
              /\ own_debit[t] = resource_needed[t]
              /\ used' = Minus(used, resource_needed[t])
              /\ own_debit'[t] = Zero

\* C8 (as stated): if get_cells raises after the reservation succeeded, every cid of the
\* need-load set receives set_error and exactly the reserved amount is released: the
\* budget's total after the failed load equals its value before the reservation.
C8_TranslatorFailureAsStated ==
    /\ [][TranslatorFailureHandled]_vars
    /\ [](\A t \in Tasks : pc[t] \in {"catch", "release"} => own_evicted[t] = Zero)

\* C8 (amended): if get_cells raises after the reservation succeeded, every cid of the
\* need-load set receives set_error and exactly the reserved amount is released: the
\* failed load leaves no debit of its own behind.  The cells that its reservation
\* evicted to make room stay evicted, so the total may be lower than before.
C8_TranslatorFailure ==
    /\ [][TranslatorFailureHandled]_vars
    /\ [](\A t \in Tasks : pc[t] = "release" =>
              /\ ~reserve_resource_failure[t] /\ catch_cids[t] = {}
              /\ own_debit[t] = resource_needed[t])

\* C8, witness: a load whose reservation evicted a cell has seen get_cells throw, has
\* set the error on its cells and has given its reservation back.
C8_Witness ==
    \E t \in Tasks :
        /\ pc[t] = "collect" /\ ~reserve_resource_failure[t]
        /\ need_load_cids[t] # {}
        /\ \A c \in need_load_cids[t] : futures[t][c] = "error" /\ state[c] = "ERROR"
        /\ own_debit[t] = Zero /\ own_evicted[t] # Zero

\* The sizes of the cells unloaded by the step.
UnloadedNow == SumSize({c \in Cells : state[c] = "LOADED" /\ state'[c] = "NOT_LOADED"})

\* reserve_with_timeout of caller t returns true in this step / returns false in it.
ReserveReturnsTrue(t) == pc[t] \in {"reserve", "reserve_wait"} /\ pc'[t] = "get_cells"
ReserveReturnsFalse(t) == pc[t] = "reserve_wait" /\ pc'[t] = "catch"

\* A reservation debits both dimensions of the need together, within the limit, or
\* debits nothing; apart from the debit it only lowers used by what it evicts.
ReserveDebitsAllOrNothing ==
    \A t \in Tasks :
        /\ ReserveReturnsTrue(t) =>
              /\ used' = Plus(Minus(used, UnloadedNow), resource_needed[t])
              /\ Covers(limit, used')
              /\ own_debit'[t] = resource_needed[t]
        /\ (pc[t] = "reserve" /\ pc'[t] = "reserve_wait") =>
              /\ used' = Minus(used, UnloadedNow)
              /\ ~Covers(limit, Plus(used', resource_needed[t]))
              /\ own_debit'[t] = Zero
        /\ ReserveReturnsFalse(t) =>
              /\ used' = used
              /\ own_debit'[t] = Zero
              /\ reserve_resource_failure'[t]

\* C9 (as stated): reserve_with_timeout is all-or-nothing: when it returns true both
\* the memory and the disk amount have been debited and no limit is exceeded; when it
\* returns false neither has been debited and used is exactly what it was before the
\* call.
C9_ReserveAllOrNothingAsStated ==
    [][ReserveDebitsAllOrNothing /\
       \A t \in Tasks : ReserveReturnsFalse(t) => own_evicted[t] = Zero]_vars

\* C9 (amended): reserve_with_timeout is all-or-nothing in its debit: when it returns
\* true both the memory and the disk amount have been debited and no limit is
\* exceeded; when it returns false neither dimension has been debited.  Cells that the
\* call evicted before it gave up stay evicted, so after a false return used may be
\* lower than before the call.
C9_ReserveAllOrNothing ==
    [][ReserveDebitsAllOrNothing /\
       \A t \in Tasks : ReserveReturnsFalse(t) =>
            \A c \in Cells : state'[c] = state[c] /\ cell_'[c] = cell_[c]]_vars

\* C9, witness: one reservation has returned true after evicting a cell, with a need in
\* both dimensions, while another has returned false.
C9_Witness ==
    \E t, u \in Tasks :
        /\ pc[t] = "get_cells" /\ own_evicted[t] # Zero
        /\ own_debit[t] = resource_needed[t]
        /\ resource_needed[t].memory_bytes > 0 /\ resource_needed[t].file_bytes > 0
        /\ reserve_resource_failure[u] /\ own_debit[u] = Zero

\* The callers whose pin_cells({S6Cid}) has resolved to an accessor.
S6Resolved == {t \in Tasks : pc[t] = "holding" /\ cids[t] = {S6Cid}}

\* C10: two concurrent pin_cells({5}) calls on a fresh slot, in any interleaving, cause
\* exactly one get_cells call whose request includes cid 5; both calls resolve
\* successfully with the same payload for cell 5; while both accessors are alive the
\* pin count of cell 5 is 2.
C10_TwoPinsOneLoad ==
    /\ [](get_calls <= 1)
    /\ [](\A t \in Tasks : futures[t][S6Cid] # "error")
    /\ [](\A t \in S6Resolved :
              state[S6Cid] = "LOADED" /\ cell_[S6Cid] # Null /\ get_calls = 1)
    /\ [](S6Resolved = Tasks => pin_count[S6Cid] = NumTasks)
    /\ [][cell_[S6Cid] # Null => cell_'[S6Cid] = cell_[S6Cid]]_vars
    /\ [](~(ENABLED NextS6) => S6Resolved = Tasks)

\* C10, witness: both calls have resolved and hold their accessors on cell 5, the second
\* caller having waited on the load of the first.
C10_Witness ==
    /\ S6Resolved = Tasks
    /\ pin_count[S6Cid] = NumTasks
    /\ get_calls = 1
    /\ cell_[S6Cid] \in Tasks

\* Scenario S7 as a state: the budget is {S7Limit, 0}; the cells of sizes S7SizeA and
\* S7SizeB are LOADED, unpinned and in the LRU, and used is their sum; caller t is about
\* to reserve S7Need of memory.
S7Before(t) ==
    /\ limit = RU(S7Limit, 0)
    /\ \A c \in {0, 1} : state[c] = "LOADED" /\ pin_count[c] = 0
    /\ SeqSet(lru) = {0, 1}
    /\ used = RU(S7SizeA + S7SizeB, 0)
    /\ pc[t] = "reserve"
    /\ resource_needed[t] = RU(S7Need, 0)

\* C11: with limit {memory 1000, disk 0} and two LOADED unpinned cells of 600 and 500 in
\* the LRU, a reservation of 700 memory evicts both cells, succeeds, and leaves the
\* budget's used at 700.
C11_ReserveEvictsBoth ==
    [][\A t \in Tasks : (S7Before(t) /\ pc'[t] # "reserve") =>
          /\ pc'[t] = "get_cells"
          /\ \A c \in {0, 1} : state'[c] = "NOT_LOADED" /\ cell_'[c] = Null
          /\ lru' = <<>>
          /\ used' = RU(S7Need, 0)]_vars

\* C11, witness: the reservation of scenario S7 has just succeeded, having evicted both
\* cells.
C11_Witness ==
    \E t \in Tasks :
        /\ pc[t] = "get_cells" /\ resource_needed[t] = RU(S7Need, 0)
        /\ own_evicted[t] = RU(S7SizeA + S7SizeB, 0)
        /\ own_debit[t] = RU(S7Need, 0)
        /\ used = RU(S7Need, 0)
        /\ \A c \in {0, 1} : state[c] = "NOT_LOADED"

\* The cells in the evictable LRU list.
InLru == SeqSet(lru)

\* C12: a LOADED cell is in the evictable LRU list if and only if its pin count is 0;
\* cells in NOT_LOADED, LOADING or ERROR are never in the list.  The first pin on a
\* LOADED cell removes it from the list and the release of its last pin inserts it.
C12_LruIffUnpinned ==
    /\ [](\A c \in Cells : c \in InLru <=> (state[c] = "LOADED" /\ pin_count[c] = 0))
    /\ [](Len(lru) = Cardinality(InLru))
    /\ [][\A c \in Cells : (state[c] = "LOADED" /\ state'[c] = "LOADED") =>
            /\ (pin_count[c] = 0 /\ pin_count'[c] > 0) => (c \in InLru /\ c \notin InLru')
            /\ (pin_count[c] > 0 /\ pin_count'[c] = 0) =>
                  (c \notin InLru /\ lru'[Len(lru')] \in Cells /\ c \in InLru')]_vars

\* C12, witness: of two LOADED cells one is unpinned and in the list, the other is
\* pinned again after having been in the list, and is out of it.
C12_Witness ==
    \E c, d \in Cells : \E t \in Tasks :
        /\ state[c] = "LOADED" /\ pin_count[c] = 0 /\ c \in InLru
        /\ state[d] = "LOADED" /\ pin_count[d] > 0 /\ d \notin InLru
        /\ futures[t][d] = "ok" /\ d \notin need_load_cids[t] /\ pc[t] \in {"pin", "collect"}

\* The live Pin handles on cell c: the resolved pins that callers hold, in the futures
\* of a running call or in an accessor.
LivePins(c) == Cardinality({t \in Tasks : futures[t][c] = "ok"})

\* C13: the pin count of a LOADED cell equals the number of live Pin handles on it: each
\* resolved pin adds exactly one, destroying a Pin subtracts exactly one, and the count
\* never goes below zero.
C13_PinCountIsLivePins ==
    /\ [](\A c \in Cells : pin_count[c] >= 0)
    /\ [](\A c \in Cells : state[c] = "LOADED" => pin_count[c] = LivePins(c))
    /\ [][\A c \in Cells : (state[c] = "LOADED" /\ state'[c] = "LOADED") =>
            pin_count'[c] - pin_count[c] = LivePins(c)' - LivePins(c)]_vars
    /\ [][\A t \in Tasks : (pc[t] = "holding" /\ pc'[t] = "idle") =>
            \A c \in Cells : pin_count'[c] =
                                IF c \in cids[t] THEN pin_count[c] - 1 ELSE pin_count[c]]_vars

\* C13, witness: every caller holds an accessor on the same cell, whose pin count is
\* their number, and a caller dropping its accessor takes the count down by one.
C13_Witness ==
    \E c \in Cells :
        /\ \A t \in Tasks : pc[t] = "holding" /\ cids[t] = {c}
        /\ pin_count[c] = NumTasks
        /\ ENABLED (DropAccessor(1, <<c>>) /\ pin_count'[c] = NumTasks - 1)

\* The cids a pin_cells(uids) call is to pin, as the design states them per mode.
MappedCids(uids) ==
    IF cell_id_mapping_mode_ = "IDENTICAL" THEN {uids[i] : i \in 1 .. Len(uids)}
    ELSE IF cell_id_mapping_mode_ = "ALWAYS_ZERO" THEN (IF uids = <<>> THEN {} ELSE {0})
    ELSE {translator_cell_id_of(uids[i]) : i \in 1 .. Len(uids)}

\* C14: pin_cells pins each distinct mapped cid exactly once per call however often a
\* uid repeats: under IDENTICAL the pinned set is the set of the uids, under ALWAYS_ZERO
\* it is {0} for non-empty uids and empty for empty uids, under CUSTOM it is the set of
\* the Translator's cell_id_of(uid) values.
C14_PinsMappedCidsOnce ==
    /\ [][\A t \in Tasks : \A uids \in UidSeqs :
            (PinCells(t, uids) /\ pc'[t] # "idle") =>
                cids'[t] = MappedCids(uids) /\ futures'[t] = NoFutures]_vars
    /\ [][\A t \in Tasks : \A c \in Cells :
            (futures[t][c] = "none" /\ futures'[t][c] # "none") =>
                /\ pc[t] = "pin" /\ c \in cids[t]
                /\ pin_count'[c] = pin_count[c] + 1
                /\ \A d \in Cells \ {c} :
                      /\ futures[t][d] = "none" => futures'[t][d] = "none"
                      /\ pin_count'[d] = pin_count[d]]_vars
    /\ [](\A t \in Tasks : pc[t] \notin {"idle", "pin"} =>
            \A c \in Cells : c \in cids[t] <=> futures[t][c] # "none")

\* C14, witness: under CUSTOM one caller holds the accessor of a call whose uids mapped
\* to cid 0 alone, and another is about to call with two uids that map to that one cid.
C14_Witness ==
    \E t, u \in Tasks :
        /\ cell_id_mapping_mode_ = "CUSTOM"
        /\ pc[u] = "holding" /\ cids[u] = {0} /\ pin_count[0] = 1
        /\ ENABLED (PinCells(t, <<0, 1>>) /\ cids'[t] = {0})

\* No cell is pinned and no load has been started.
NoPinNoLoad ==
    /\ \A c \in Cells : pin_count[c] = 0 /\ state[c] = "NOT_LOADED"
    /\ \A t \in Tasks : pc[t] = "idle"

\* C15: Warmup pins no cell and starts no load when the warmup policy is Disable, and
\* any warmup policy value other than Disable and Sync is treated as Disable.  (The
\* callers of this slot do nothing but run Warmup.)
C15_WarmupOnlyUnderSync == cache_warmup_policy # "Sync" => NoPinNoLoad

\* Under Disable alone Warmup pins no cell and starts no load.
WarmupDisabledDoesNothing == cache_warmup_policy = "Disable" => NoPinNoLoad

\* =================================================== unary predicate executor
\* PhyUnaryRangeFilterExpr evaluates "column OP literal" batch by batch.  A
\* bitmap is a sequence of BOOLEAN; row r of the column (0-based, as in the
\* code) is element r + 1 of segment.data and segment.valid_data.  A VARCHAR
\* value is the sequence of its character codes.

slotVars == <<num_cells, cell_id_mapping_mode_, size_, cache_warmup_policy, limit,
              cellVars, budgetVars, taskVars, histVars>>

\* OffsetVector* input == nullptr (an offset is never negative)
Nullptr == <<-1>>

\* a bitmap pointer that is null (every bitmap that exists has a row)
NoBitmap == <<>>

CompareOps == {"GreaterThan", "GreaterEqual", "LessThan", "LessEqual", "Equal", "NotEqual"}
NgramOps == {"InnerMatch", "Match", "PrefixMatch", "PostfixMatch"}
TextOps == {"TextMatch", "PhraseMatch"}

IntegralTypes == {"INT8", "INT32"}

\* std::numeric_limits<T>; the literals of the model are 32-bit integers, so
\* none is out of the range of INT32 (as no int64_t is out of INT64's)
TypeMin(T) == IF T = "INT8" THEN -128 ELSE -2147483647 - 1
TypeMax(T) == IF T = "INT8" THEN 127 ELSE 2147483647

lt_lb(T, v) == v < TypeMin(T)
gt_ub(T, v) == v > TypeMax(T)
out_of_range(T, v) == lt_lb(T, v) \/ gt_ub(T, v)

Min(a, b) == IF a <= b THEN a ELSE b
AllBits(n, b) == [i \in 1 .. n |-> b]

\* ------------------------------------------------------ value comparison
\* std::string operator< : lexicographic on the character codes
RECURSIVE StrLess(_, _)
StrLess(a, b) ==
    IF b = <<>> THEN FALSE
    ELSE IF a = <<>> THEN TRUE
    ELSE IF Head(a) # Head(b) THEN Head(a) < Head(b)
    ELSE StrLess(Tail(a), Tail(b))

IsPrefix(p, s) == Len(p) <= Len(s) /\ SubSeq(s, 1, Len(p)) = p
IsPostfix(p, s) == Len(p) <= Len(s) /\ SubSeq(s, Len(s) - Len(p) + 1, Len(s)) = p
IsInner(p, s) == \E k \in 0 .. (Len(s) - Len(p)) : SubSeq(s, k + 1, k + Len(p)) = p

\* SQL LIKE: code 37 ('%') matches any run of characters, code 95 ('_') one
\* character, every other code itself.
RECURSIVE LikeMatch(_, _)
LikeMatch(pattern, s) ==
    IF pattern = <<>> THEN s = <<>>
    ELSE IF Head(pattern) = 37
         THEN \E k \in 0 .. Len(s) : LikeMatch(Tail(pattern), SubSeq(s, k + 1, Len(s)))
    ELSE IF s = <<>> THEN FALSE
    ELSE (Head(pattern) = 95 \/ Head(pattern) = Head(s)) /\ LikeMatch(Tail(pattern), Tail(s))

Less(T, a, b) == IF T = "VARCHAR" THEN StrLess(a, b) ELSE a < b

\* v OP val, for one non-skipped row
Holds(T, op, v, val) ==
    CASE op = "GreaterThan" -> Less(T, val, v)
      [] op = "GreaterEqual" -> ~Less(T, v, val)
      [] op = "LessThan" -> Less(T, v, val)
      [] op = "LessEqual" -> ~Less(T, val, v)
      [] op = "Equal" -> v = val
      [] op = "NotEqual" -> v # val
      [] op = "PrefixMatch" -> IsPrefix(val, v)
      [] op = "PostfixMatch" -> IsPostfix(val, v)
      [] op = "InnerMatch" -> IsInner(val, v)
      [] op = "Match" -> LikeMatch(val, v)

\* ------------------------------------------------------------ the cursor
\* SegmentExpr::GetNextBatchSize
GetNextBatchSize(e) == Min(e.batch_size_, e.active_count_ - e.current_data_global_pos_)

\* SegmentExpr::MoveCursor
MoveCursor(e) == [e EXCEPT !.current_data_global_pos_ = @ + GetNextBatchSize(e)]

\* the rows of the chunk that holds row pos, and where pos lies in that chunk
ChunkFirst(pos) == pos - (pos % segment.chunk_rows)
ChunkLen(pos) == Min(segment.chunk_rows, Len(segment.data) - ChunkFirst(pos))
ChunkData(pos) == SubSeq(segment.data, ChunkFirst(pos) + 1, ChunkFirst(pos) + ChunkLen(pos))
ChunkValid(pos) == SubSeq(segment.valid_data, ChunkFirst(pos) + 1, ChunkFirst(pos) + ChunkLen(pos))

\* what an executor function hands back: a ColumnVector (ret = "vector"),
\* nullptr, or an exception (ret = "throw"), the strategy that produced it
\* and the members of the expression afterwards
Ret(ret, path, res, valid, e) ==
    [ret |-> ret, path |-> path, res |-> res, valid |-> valid, expr |-> e, error |-> "none"]

\* ThrowInfo(code, ...) out of the strategy path
Throw(code, path, e) ==
    [ret |-> "throw", path |-> path, res |-> <<>>, valid |-> <<>>, expr |-> e, error |-> code]

\* SegmentExpr::ProcessChunksForValid: the valid bits of the next batch; moves the cursor
ProcessChunksForValid(e) ==
    [valid |-> [i \in 1 .. GetNextBatchSize(e) |->
                   segment.valid_data[e.current_data_global_pos_ + i]],
     expr |-> MoveCursor(e)]

\* SegmentExpr::ProcessChunksForValidByOffsets: the valid bits of the rows of input
ProcessChunksForValidByOffsets(input) ==
    [i \in 1 .. Len(input) |-> segment.valid_data[input[i] + 1]]

\* ------------------------------------------------------ overflow pre-check
\* the pre-check with the bound of > and >= taken from the wrong end
PreCheckOverflowSwapped(T, e, input) ==
    IF T \in IntegralTypes /\ out_of_range(T, e.val)
    THEN LET batch_size ==
                 IF input # Nullptr THEN Len(input)
                 ELSE IF e.overflow_check_pos_ + e.batch_size_ >= e.active_count_
                      THEN e.active_count_ - e.overflow_check_pos_
                      ELSE e.batch_size_
             e1 == IF input # Nullptr THEN e
                   ELSE [e EXCEPT !.overflow_check_pos_ = @ + batch_size]
             pv == ProcessChunksForValid(e1)
             valid == IF input # Nullptr THEN ProcessChunksForValidByOffsets(input)
                      ELSE pv.valid
             e2 == IF input # Nullptr THEN e1 ELSE pv.expr
             unset == AllBits(batch_size, FALSE)
             masked == [i \in 1 .. batch_size |-> valid[i]]
         IN  CASE e.op_type_ \in {"GreaterThan", "GreaterEqual"} ->
                      Ret("vector", "overflow",
                          IF gt_ub(T, e.val) THEN masked ELSE unset, valid, e2)
               [] e.op_type_ \in {"LessThan", "LessEqual"} ->
                      Ret("vector", "overflow",
                          IF gt_ub(T, e.val) THEN masked ELSE unset, valid, e2)
               [] e.op_type_ = "Equal" -> Ret("vector", "overflow", unset, valid, e2)
               [] e.op_type_ = "NotEqual" -> Ret("vector", "overflow", masked, valid, e2)
               [] OTHER -> Throw("OpTypeInvalid", "overflow", e2)
    ELSE Ret("nullptr", "overflow", <<>>, <<>>, e)

PreCheckOverflow(T, e, input) ==
    IF T \in IntegralTypes /\ out_of_range(T, e.val)
    THEN LET batch_size ==
                 IF input # Nullptr THEN Len(input)
                 ELSE IF e.overflow_check_pos_ + e.batch_size_ >= e.active_count_
                      THEN e.active_count_ - e.overflow_check_pos_
                      ELSE e.batch_size_
             e1 == IF input # Nullptr THEN e
                   ELSE [e EXCEPT !.overflow_check_pos_ = @ + batch_size]
             pv == ProcessChunksForValid(e1)
             valid == IF input # Nullptr THEN ProcessChunksForValidByOffsets(input)
                      ELSE pv.valid
             e2 == IF input # Nullptr THEN e1 ELSE pv.expr
             unset == AllBits(batch_size, FALSE)
             masked == [i \in 1 .. batch_size |-> valid[i]]
         IN  CASE e.op_type_ \in {"GreaterThan", "GreaterEqual"} ->
                      Ret("vector", "overflow",
                          IF lt_lb(T, e.val) THEN masked ELSE unset, valid, e2)
               [] e.op_type_ \in {"LessThan", "LessEqual"} ->
                      Ret("vector", "overflow",
                          IF gt_ub(T, e.val) THEN masked ELSE unset, valid, e2)
               [] e.op_type_ = "Equal" -> Ret("vector", "overflow", unset, valid, e2)
               [] e.op_type_ = "NotEqual" -> Ret("vector", "overflow", masked, valid, e2)
               [] OTHER -> Throw("OpTypeInvalid", "overflow", e2)
    ELSE Ret("nullptr", "overflow", <<>>, <<>>, e)

\* ---------------------------------------------------------- the data scan
\* UnaryElementFunc<T, op, filter_type>: the typed comparator over one sub-batch
UnaryElementFunc(T, op, data, size, val, res, bitmap_input, processed_cursor, offsets) ==
    [i \in 1 .. size |->
        IF bitmap_input # <<>> /\ ~bitmap_input[i + processed_cursor]
        THEN res[i]
        ELSE Holds(T, op, data[(IF offsets = Nullptr THEN i - 1 ELSE offsets[i]) + 1], val)]

\* the lambda with the null mask read at the row's place in the sub-batch,
\* whatever the offsets say
execute_sub_batchMaskInPlace(T, op, data, valid_data, offsets, size, res, valid_res, val, bitmap_input, processed_cursor) ==
    LET compared == UnaryElementFunc(T, op, data, size, val, res, bitmap_input,
                                     processed_cursor, offsets)
        skipped(i) == bitmap_input # <<>> /\ ~bitmap_input[i + processed_cursor]
        isnull(i) == valid_data # NoBitmap /\ ~skipped(i) /\ ~valid_data[i]
    IN  [res |-> [i \in 1 .. size |-> IF isnull(i) THEN FALSE ELSE compared[i]],
         valid_res |-> [i \in 1 .. size |-> IF isnull(i) THEN FALSE ELSE valid_res[i]]]

\* the lambda execute_sub_batch of ExecRangeVisitorImplForData: res and
\* valid_res are the views of the sub-batch; valid_data = NoBitmap is a
\* column that is not nullable
execute_sub_batch(T, op, data, valid_data, offsets, size, res, valid_res, val, bitmap_input, processed_cursor) ==
    LET compared == UnaryElementFunc(T, op, data, size, val, res, bitmap_input,
                                     processed_cursor, offsets)
        skipped(i) == bitmap_input # <<>> /\ ~bitmap_input[i + processed_cursor]
        offset(i) == IF offsets = Nullptr THEN i - 1 ELSE offsets[i]
        isnull(i) == valid_data # NoBitmap /\ ~skipped(i) /\ ~valid_data[offset(i) + 1]
    IN  [res |-> [i \in 1 .. size |-> IF isnull(i) THEN FALSE ELSE compared[i]],
         valid_res |-> [i \in 1 .. size |-> IF isnull(i) THEN FALSE ELSE valid_res[i]]]

\* ------------------------------------------------------------ JSON values
\* The value a document has at the predicate's JSON pointer is [t, v]: t is
\* "missing", "bool", "int", "double", "string" or "array"; an int is its
\* value, a double is its value in tenths, a string its character codes, an
\* array its elements.  A literal is [case, v] in the same way.
GetTypeOf(val) ==
    CASE val.case = "kBoolVal" -> "bool"
      [] val.case = "kInt64Val" -> "int64"
      [] val.case = "kFloatVal" -> "double"
      [] val.case = "kStringVal" -> "string"
      [] val.case = "kArrayVal" -> "array"

\* a number in tenths
Tenths(t, v) == IF t \in {"int", "kInt64Val"} THEN 10 * v ELSE v

\* milvus::Json::at<GetType>(pointer): error, or the value read as GetType
JsonAt(GetType, doc) ==
    CASE GetType = "bool" -> [error |-> doc.t # "bool", x |-> doc.v]
      [] GetType = "int64" -> [error |-> doc.t # "int", x |-> Tenths(doc.t, doc.v)]
      [] GetType = "double" -> [error |-> doc.t \notin {"int", "double"},
                                x |-> Tenths(doc.t, doc.v)]
      [] GetType = "string" -> [error |-> doc.t # "string", x |-> doc.v]

\* x OP val for a value read as GetType
JsonCmp(GetType, op, x, val) ==
    LET number == GetType \in {"int64", "double"}
        ordered == GetType = "bool" /\ op \notin {"Equal", "NotEqual"}
        T == IF number THEN "INT64" ELSE IF GetType = "string" THEN "VARCHAR" ELSE "BOOL"
        a == IF ordered THEN (IF x THEN 1 ELSE 0) ELSE x
        b == IF number THEN Tenths(val.case, val.v)
             ELSE IF ordered THEN (IF val.v THEN 1 ELSE 0) ELSE val.v
    IN  Holds(T, op, a, b)

\* the macro without the retry of an int64 literal as double
UnaryRangeJSONCompareNoRetry(GetType, op, doc, val) ==
    LET x == JsonAt(GetType, doc)
    IN  ~x.error /\ JsonCmp(GetType, op, x.x, val)

\* the macro UnaryRangeJSONCompare: a lookup error is no match, after an
\* int64 literal is retried as double
UnaryRangeJSONCompare(GetType, op, doc, val) ==
    LET x == JsonAt(GetType, doc)
        retry == x.error /\ GetType = "int64" /\ ~JsonAt("double", doc).error
    IN  (~x.error \/ retry)
        /\ JsonCmp(IF retry THEN "double" ELSE GetType, op,
                   IF retry THEN Tenths(doc.t, doc.v) ELSE x.x, val)

\* the macro UnaryRangeJSONCompareNotEqual: a lookup error is a match
UnaryRangeJSONCompareNotEqual(GetType, doc, val) ==
    LET x == JsonAt(GetType, doc)
        retry == x.error /\ GetType = "int64" /\ ~JsonAt("double", doc).error
    IN  (x.error /\ ~retry)
        \/ JsonCmp(IF retry THEN "double" ELSE GetType, "NotEqual",
                   IF retry THEN Tenths(doc.t, doc.v) ELSE x.x, val)

\* CompareTwoJsonArray over doc.at_pointer(pointer).get_array()
CompareTwoJsonArray(doc, val) == doc.v = val.v

\* the ops the JSON kernel has a case for
JsonOps == CompareOps \cup NgramOps

\* the lambda execute_sub_batch of ExecRangeVisitorImplJson
execute_sub_batchJson(GetType, op, data, valid_data, offsets, size, res, valid_res, val, bitmap_input, processed_cursor) ==
    LET offset(i) == IF offsets = Nullptr THEN i - 1 ELSE offsets[i]
        isnull(i) == valid_data # NoBitmap /\ ~valid_data[offset(i) + 1]
        skipped(i) == bitmap_input # <<>> /\ ~bitmap_input[i + processed_cursor]
        row(i) ==
            IF GetType = "array"
            THEN IF op \in {"Equal", "NotEqual"}
                 THEN data[i].t = "array"
                      /\ (CompareTwoJsonArray(data[i], val) <=> (op = "Equal"))
                 ELSE FALSE
            ELSE IF op = "NotEqual"
                 THEN UnaryRangeJSONCompareNotEqual(GetType, data[offset(i) + 1], val)
                 ELSE UnaryRangeJSONCompare(GetType, op, data[offset(i) + 1], val)
        bits(null) ==
            [res |-> [i \in 1 .. size |->
                         IF null[i] THEN FALSE ELSE IF skipped(i) THEN res[i] ELSE row(i)],
             valid_res |-> [i \in 1 .. size |-> IF null[i] THEN FALSE ELSE valid_res[i]]]
    IN  bits([i \in 1 .. size |-> isnull(i)])

\* ----------------------------------------------------------- ARRAY values
\* UnaryElementFuncForArray: a row is resolved to the whole array (index -1)
\* or to its element at index, then compared; a whole-array literal is
\* compared by deep equality
UnaryElementFuncForArray(ValueType, op, data, valid_data, offsets, size, res, valid_res, val, bitmap_input, processed_cursor) ==
    LET offset(i) == IF offsets = Nullptr THEN i - 1 ELSE offsets[i]
        isnull(i) == valid_data # NoBitmap /\ ~valid_data[offset(i) + 1]
        skipped(i) == bitmap_input # <<>> /\ ~bitmap_input[i + processed_cursor]
        array(i) == data[offset(i) + 1]
        index == segment.nested_index
        row(i) ==
            IF ValueType = "array"
            THEN CASE op = "Equal" -> array(i) = val.v
                   [] op = "NotEqual" -> array(i) # val.v
                   [] OTHER -> FALSE
            ELSE index >= 0 /\ index < Len(array(i))
                 /\ Holds("INT64", op, array(i)[index + 1], val.v)
    IN  [res |-> [i \in 1 .. size |->
                     IF isnull(i) THEN FALSE ELSE IF skipped(i) THEN res[i] ELSE row(i)],
         valid_res |-> [i \in 1 .. size |-> IF isnull(i) THEN FALSE ELSE valid_res[i]]]

\* the execute_sub_batch of the scan that runs: T is a primitive type, or
\* JSON / ARRAY with the literal's type in val
SubBatch(T, op, data, valid_data, offsets, size, res, valid_res, val, bitmap_input, processed_cursor) ==
    CASE T = "JSON" ->
             execute_sub_batchJson(GetTypeOf(val), op, data, valid_data, offsets, size,
                                   res, valid_res, val, bitmap_input, processed_cursor)
      [] T = "ARRAY" ->
             UnaryElementFuncForArray(GetTypeOf(val), op, data, valid_data, offsets, size,
                                      res, valid_res, val, bitmap_input, processed_cursor)
      [] OTHER ->
             execute_sub_batch(T, op, data, valid_data, offsets, size,
                               res, valid_res, val, bitmap_input, processed_cursor)

\* SegmentExpr::ProcessDataChunks: the rows from pos on, one sub-batch per
\* chunk they lie in; done rows of the batch are already in res / valid_res
RECURSIVE ProcessDataChunks(_, _, _, _, _, _, _, _)
ProcessDataChunks(T, op, val, bitmap_input, pos, res, valid_res, processed_cursor) ==
    IF processed_cursor = Len(res) THEN [res |-> res, valid_res |-> valid_res]
    ELSE LET data_pos == pos - ChunkFirst(pos)
             size == Min(Len(res) - processed_cursor, ChunkLen(pos) - data_pos)
             merge(old, new) ==
                 [i \in 1 .. Len(old) |->
                     IF i > processed_cursor /\ i <= processed_cursor + size
                     THEN new[i - processed_cursor] ELSE old[i]]
             next(sub) ==
                 ProcessDataChunks(T, op, val, bitmap_input, pos + size,
                                   merge(res, sub.res), merge(valid_res, sub.valid_res),
                                   processed_cursor + size)
         IN  next(SubBatch(T, op,
                        SubSeq(ChunkData(pos), data_pos + 1, data_pos + size),
                        IF segment.nullable
                        THEN SubSeq(ChunkValid(pos), data_pos + 1, data_pos + size)
                        ELSE NoBitmap,
                        Nullptr, size,
                        SubSeq(res, processed_cursor + 1, processed_cursor + size),
                        SubSeq(valid_res, processed_cursor + 1, processed_cursor + size),
                        val, bitmap_input, processed_cursor))

\* SegmentExpr::ProcessDataByOffsets: one sub-batch of one row per offset,
\* read at random from the chunk that holds it
RECURSIVE ProcessDataByOffsets(_, _, _, _, _, _, _, _)
ProcessDataByOffsets(T, op, val, bitmap_input, input, res, valid_res, processed_cursor) ==
    IF processed_cursor = Len(res) THEN [res |-> res, valid_res |-> valid_res]
    ELSE LET row == input[processed_cursor + 1]
             put(old, new) == [old EXCEPT ![processed_cursor + 1] = new[1]]
             next(sub) ==
                 ProcessDataByOffsets(T, op, val, bitmap_input, input,
                                      put(res, sub.res), put(valid_res, sub.valid_res),
                                      processed_cursor + 1)
         IN  next(SubBatch(T, op, ChunkData(row),
                        IF segment.nullable THEN ChunkValid(row) ELSE NoBitmap,
                        <<row - ChunkFirst(row)>>, 1,
                        <<res[processed_cursor + 1]>>, <<valid_res[processed_cursor + 1]>>,
                        val, bitmap_input, processed_cursor))

ExecRangeVisitorImplForData(T, e, input, bitmap_input) ==
    LET real_batch_size == IF e.has_offset_input_ THEN Len(input) ELSE GetNextBatchSize(e)
        e1 == [e EXCEPT !.arg_inited_ = TRUE]
        res == AllBits(real_batch_size, FALSE)
        valid_res == AllBits(real_batch_size, TRUE)
        scan(column) ==
            IF e.has_offset_input_
            THEN ProcessDataByOffsets(column, e.op_type_, e.val, bitmap_input, input,
                                      res, valid_res, 0)
            ELSE ProcessDataChunks(column, e.op_type_, e.val, bitmap_input,
                                   e.current_data_global_pos_, res, valid_res, 0)
        vector(out) ==
            Ret("vector", "data", out.res, out.valid_res,
                IF e.has_offset_input_ THEN e1 ELSE MoveCursor(e1))
        after(pre) ==
            IF pre.ret # "nullptr" THEN pre
            ELSE IF real_batch_size = 0 THEN Ret("nullptr", "data", <<>>, <<>>, e)
            ELSE IF e.op_type_ \notin CompareOps \cup NgramOps
                 THEN Throw("OpTypeInvalid", "data", e1)
            ELSE vector(scan(T))
    IN  after(PreCheckOverflow(T, e, input))

\* --------------------------------------------------- the scalar index scan
\* SegmentExpr::ProcessIndexChunks over UnaryIndexFunc: the index answers
\* "v OP val" for the rows it holds (the non-null ones) and its valid bitmap
\* marks them; moves the cursor
IndexHolds(T, op, datum, val) ==
    IF segment.data_type_ # "JSON" THEN Holds(T, op, datum, val)
    ELSE IF op = "NotEqual" THEN UnaryRangeJSONCompareNotEqual(T, datum, val)
    ELSE UnaryRangeJSONCompare(T, op, datum, val)

ProcessIndexChunks(T, e) ==
    LET n == GetNextBatchSize(e)
        at(i) == e.current_data_global_pos_ + i
    IN  [res |-> [i \in 1 .. n |-> segment.valid_data[at(i)]
                                    /\ IndexHolds(T, e.op_type_, segment.data[at(i)], e.val)],
         valid |-> [i \in 1 .. n |-> segment.valid_data[at(i)]],
         expr |-> MoveCursor(e)]

ExecRangeVisitorImplForIndex(T, e) ==
    LET e1 == [e EXCEPT !.arg_inited_ = TRUE]
        vector(out) == Ret("vector", "index", out.res, out.valid, out.expr)
        after(pre) ==
            IF pre.ret # "nullptr" THEN pre
            ELSE IF GetNextBatchSize(e1) = 0 THEN Ret("nullptr", "index", <<>>, <<>>, e1)
            ELSE IF e.op_type_ \notin CompareOps \cup NgramOps
                 THEN Throw("OpTypeInvalid", "index", e1)
            ELSE vector(ProcessIndexChunks(T, e1))
    IN  after(PreCheckOverflow(T, e1, Nullptr))

\* ------------------------------------------------------- text / phrase match
\* index::TextMatchIndex::MatchQuery / PhraseMatchQuery: the rows the index
\* holds (the first segment.text_rows ones) whose text has the query in it
MatchQuery(query) ==
    [i \in 1 .. segment.text_rows |-> segment.valid_data[i] /\ IsInner(query, segment.data[i])]

\* index::TextMatchIndex::IsNotNull
TextIsNotNull == [i \in 1 .. segment.text_rows |-> segment.valid_data[i]]

\* an int64_t too wide for a model integer is the pair <<hi, lo>> of
\* hi * 2^16 + lo with lo in 0 .. 2^16 - 1
WideLess(a, b) == a[1] < b[1] \/ (a[1] = b[1] /\ a[2] < b[2])
WideZero == <<0, 0>>

\* std::numeric_limits<uint32_t>::max()
UINT32_MAX == <<65535, 65535>>

\* the uint32_t parameter of PhraseMatchQuery receiving an int64_t
ToUint32(slop) == <<slop[1] % 65536, slop[2]>>

\* the tail appended to the match result only
TextQueryResultTailOnly(e, slop) ==
    LET tail == AllBits(e.active_count_ - segment.text_rows, FALSE)
        padded(b) == IF Len(b) < e.active_count_ THEN b \o tail ELSE b
    IN  [e EXCEPT !.cached_match_res_ = padded(MatchQuery(e.val)),
                  !.cached_index_chunk_valid_res_ =
                      TextIsNotNull \o AllBits(e.active_count_ - segment.text_rows, TRUE),
                  !.index_queries = @ + 1,
                  !.index_slop = IF e.op_type_ = "PhraseMatch" THEN ToUint32(slop) ELSE @]

\* index->PhraseMatchQuery(query, slop) / index->MatchQuery(query), and
\* index->IsNotNull(), both padded to active_count_
TextQuery(e, slop) ==
    LET tail == AllBits(e.active_count_ - segment.text_rows, FALSE)
        padded(b) == IF Len(b) < e.active_count_ THEN b \o tail ELSE b
    IN  [e EXCEPT !.cached_match_res_ = padded(MatchQuery(e.val)),
                  !.cached_index_chunk_valid_res_ = padded(TextIsNotNull),
                  !.index_queries = @ + 1,
                  !.index_slop = IF e.op_type_ = "PhraseMatch" THEN ToUint32(slop) ELSE @]

\* the slop tested against the lower bound only
ExecTextMatchNoUpperBound(e) ==
    LET e1 == [e EXCEPT !.arg_inited_ = TRUE]
        slop == IF e.op_type_ = "PhraseMatch" /\ Len(e.extra_values_) > 0
                THEN e.extra_values_[1] ELSE WideZero
        real_batch_size == GetNextBatchSize(e1)
        from == e.current_data_global_pos_
        vector(e2) ==
            Ret("vector", "text",
                SubSeq(e2.cached_match_res_, from + 1, from + real_batch_size),
                SubSeq(e2.cached_index_chunk_valid_res_, from + 1, from + real_batch_size),
                MoveCursor(e2))
    IN  IF e.op_type_ = "PhraseMatch" /\ WideLess(slop, WideZero)
        THEN Throw("InvalidParameter", "text", e1)
        ELSE IF real_batch_size = 0 THEN Ret("nullptr", "text", <<>>, <<>>, e1)
        ELSE vector(IF e1.cached_match_res_ = NoBitmap THEN TextQuery(e1, slop) ELSE e1)

ExecTextMatch(e) ==
    LET e1 == [e EXCEPT !.arg_inited_ = TRUE]
        slop == IF e.op_type_ = "PhraseMatch" /\ Len(e.extra_values_) > 0
                THEN e.extra_values_[1] ELSE WideZero
        real_batch_size == GetNextBatchSize(e1)
        from == e.current_data_global_pos_
        vector(e2) ==
            Ret("vector", "text",
                SubSeq(e2.cached_match_res_, from + 1, from + real_batch_size),
                SubSeq(e2.cached_index_chunk_valid_res_, from + 1, from + real_batch_size),
                MoveCursor(e2))
    IN  IF e.op_type_ = "PhraseMatch" /\ (WideLess(slop, WideZero) \/ WideLess(UINT32_MAX, slop))
        THEN Throw("InvalidParameter", "text", e1)
        ELSE IF real_batch_size = 0 THEN Ret("nullptr", "text", <<>>, <<>>, e1)
        ELSE vector(IF e1.cached_match_res_ = NoBitmap THEN TextQuery(e1, slop) ELSE e1)

\* ------------------------------------------------------------ n-gram match
\* SegmentExpr::CanUseNgramIndex
CanUseNgramIndex == segment.ngram_min_gram > 0

CanExecNgramMatch(e) ==
    e.op_type_ \in NgramOps /\ ~e.has_offset_input_ /\ CanUseNgramIndex

\* index::NgramInvertedIndex::ExecuteQuery: a literal shorter than the
\* smallest gram cannot be served (nullopt, here NoBitmap); any other is
\* answered for every row
ExecuteQuery(literal, op) ==
    LET json == segment.data_type_ = "JSON"
        text == IF json THEN literal.v ELSE literal
        holds(datum) == IF json THEN datum.t = "string" /\ Holds("VARCHAR", op, datum.v, text)
                        ELSE Holds("VARCHAR", op, datum, text)
    IN  IF Len(text) < segment.ngram_min_gram THEN NoBitmap
        ELSE [i \in 1 .. Len(segment.data) |-> segment.valid_data[i] /\ holds(segment.data[i])]

\* the attempt with the cursor moved before the index is asked
ExecNgramMatchMovesFirst(e) ==
    LET e1 == MoveCursor([e EXCEPT !.arg_inited_ = TRUE])
        real_batch_size == GetNextBatchSize(e)
        queried == [e1 EXCEPT !.index_queries = @ + 1]
        from == e.current_data_global_pos_
        vector(e2) ==
            Ret("vector", "ngram",
                SubSeq(e2.cached_ngram_match_res_, from + 1, from + real_batch_size),
                SubSeq(e2.cached_index_chunk_valid_res_, from + 1, from + real_batch_size),
                e2)
        answer(res_opt) ==
            IF res_opt = NoBitmap THEN Ret("nullopt", "ngram", <<>>, <<>>, queried)
            ELSE vector([queried EXCEPT !.cached_ngram_match_res_ = res_opt,
                                        !.cached_index_chunk_valid_res_ = segment.valid_data])
    IN  IF real_batch_size = 0 THEN Ret("nullopt", "ngram", <<>>, <<>>, e1)
        ELSE IF e1.cached_ngram_match_res_ = NoBitmap
             THEN answer(ExecuteQuery(e.val, e.op_type_))
        ELSE vector(e1)

\* ret = "nullopt": the attempt declined
ExecNgramMatch(e) ==
    LET e1 == [e EXCEPT !.arg_inited_ = TRUE]
        real_batch_size == GetNextBatchSize(e)
        queried == [e1 EXCEPT !.index_queries = @ + 1]
        from == e.current_data_global_pos_
        vector(e2) ==
            Ret("vector", "ngram",
                SubSeq(e2.cached_ngram_match_res_, from + 1, from + real_batch_size),
                SubSeq(e2.cached_index_chunk_valid_res_, from + 1, from + real_batch_size),
                MoveCursor(e2))
        answer(res_opt) ==
            IF res_opt = NoBitmap THEN Ret("nullopt", "ngram", <<>>, <<>>, queried)
            ELSE vector([queried EXCEPT !.cached_ngram_match_res_ = res_opt,
                                        !.cached_index_chunk_valid_res_ = segment.valid_data])
    IN  IF real_batch_size = 0 THEN Ret("nullopt", "ngram", <<>>, <<>>, e1)
        ELSE IF e1.cached_ngram_match_res_ = NoBitmap
             THEN answer(ExecuteQuery(e.val, e.op_type_))
        ELSE vector(e1)

\* ----------------------------------------------------------------- dispatch
\* SegmentExpr::CanUseIndex<T>(op): the field's scalar index can serve the op
SegmentCanUseIndex == segment.scalar_index = "suitable"

CanUseIndex(e) == e.is_index_mode_ /\ SegmentCanUseIndex

\* the dispatch with the index scan chosen whether or not the call carries an
\* offset input
ExecRangeVisitorImplIgnoresOffsets(T, e, input, bitmap_input) ==
    LET scans(e2) ==
            IF e2.use_index_
            THEN ExecRangeVisitorImplForIndex(T, e2)
            ELSE ExecRangeVisitorImplForData(T, e2, input, bitmap_input)
        indexed(e1) == scans([e1 EXCEPT !.use_index_ = CanUseIndex(e1)])
        after(ngram) == IF ngram.ret = "vector" THEN ngram ELSE indexed(ngram.expr)
    IN  IF e.op_type_ \in TextOps
        THEN IF e.has_offset_input_ THEN Throw("OpTypeInvalid", "none", e)
             ELSE ExecTextMatch(e)
        ELSE IF CanExecNgramMatch(e) THEN after(ExecNgramMatch(e))
        ELSE indexed(e)

\* PhyUnaryRangeFilterExpr::ExecRangeVisitorImpl<T>
ExecRangeVisitorImpl(T, e, input, bitmap_input) ==
    LET scans(e2) ==
            IF e2.use_index_ /\ ~e2.has_offset_input_
            THEN ExecRangeVisitorImplForIndex(T, e2)
            ELSE ExecRangeVisitorImplForData(T, e2, input, bitmap_input)
        indexed(e1) == scans([e1 EXCEPT !.use_index_ = CanUseIndex(e1)])
        after(ngram) == IF ngram.ret = "vector" THEN ngram ELSE indexed(ngram.expr)
    IN  IF e.op_type_ \in TextOps
        THEN IF e.has_offset_input_ THEN Throw("OpTypeInvalid", "none", e)
             ELSE ExecTextMatch(e)
        ELSE IF CanExecNgramMatch(e) THEN after(ExecNgramMatch(e))
        ELSE indexed(e)

PrimitiveTypes == IntegralTypes \cup {"VARCHAR"}

\* ------------------------------------------------------------ JSON columns
\* SegmentExpr::CanUseJsonKeyIndex
CanUseJsonKeyIndex == segment.json_key_index

\* the row filter handed to JsonKeyIndex::FilterByPath: the index has an
\* entry for a non-null row that has the key; entries are not inlined, so
\* every row is evaluated on its document
JsonKeyFilter(GetType, op, doc, val) ==
    LET typed == GetType # "array" /\ doc.t \in {"string", "double", "int"}
        number == GetType \in {"int64", "double"}
    IN  IF doc.t = "missing" THEN FALSE
        ELSE IF GetType = "array"
             THEN op \in {"Equal", "NotEqual"} /\ doc.t = "array"
                  /\ (CompareTwoJsonArray(doc, val) <=> (op = "Equal"))
        ELSE IF typed /\ GetType = "bool" THEN FALSE
        ELSE IF typed /\ GetType = "string" /\ doc.t # "string" THEN FALSE
        ELSE IF typed /\ number /\ doc.t = "string" THEN FALSE
        ELSE IF typed
             THEN JsonCmp(IF number THEN "double" ELSE "string", op,
                          IF number THEN Tenths(doc.t, doc.v) ELSE doc.v, val)
        ELSE IF op = "NotEqual" THEN UnaryRangeJSONCompareNotEqual(GetType, doc, val)
        ELSE UnaryRangeJSONCompare(GetType, op, doc, val)

\* the first loop of the filter: an entry whose value the index inlined
\* (valid_array[i]) is compared on that value.  ISVALIDJSONTYPE wants a
\* number for a numeric literal and a BOOL for a bool literal;
\* CompareValueWithOpType answers the six comparison ops and nothing else
JsonKeyInline(GetType, op, doc, val) ==
    /\ op \in CompareOps
    /\ \/ GetType \in {"int64", "double"} /\ doc.t \in {"int", "double"}
       \/ GetType = "bool" /\ doc.t = "bool"
    /\ JsonCmp(IF GetType = "bool" THEN "bool" ELSE "double", op,
               IF GetType = "bool" THEN doc.v ELSE Tenths(doc.t, doc.v), val)

\* the values the index inlines when it inlines: numbers and bools
Inlined(doc) == segment.json_inline /\ doc.t \in {"int", "double", "bool"}

\* the bitmap FilterByPath builds: a row without the key has no entry and
\* stays 0; a null row's document is not valid
FilterByPath(e) ==
    [i \in 1 .. e.active_count_ |->
        /\ segment.valid_data[i]
        /\ IF Inlined(segment.data[i])
           THEN JsonKeyInline(GetTypeOf(e.val), e.op_type_, segment.data[i], e.val)
           ELSE JsonKeyFilter(GetTypeOf(e.val), e.op_type_, segment.data[i], e.val)]

\* the path without the cached_index_chunk_id_ guard: every batch asks the index
ExecRangeVisitorImplJsonForIndexUncached(e) ==
    LET real_batch_size == GetNextBatchSize(e)
        from == e.current_data_global_pos_
        vector(e1) ==
            Ret("vector", "jsonkey",
                SubSeq(e1.cached_index_chunk_res_, from + 1, from + real_batch_size),
                AllBits(real_batch_size, TRUE), MoveCursor(e1))
    IN  IF real_batch_size = 0 THEN Ret("nullptr", "jsonkey", <<>>, <<>>, e)
        ELSE vector([e EXCEPT !.cached_index_chunk_id_ = 0,
                              !.cached_index_chunk_res_ = FilterByPath(e),
                              !.index_queries = @ + 1])

ExecRangeVisitorImplJsonForIndex(e) ==
    LET real_batch_size == GetNextBatchSize(e)
        from == e.current_data_global_pos_
        vector(e1) ==
            Ret("vector", "jsonkey",
                SubSeq(e1.cached_index_chunk_res_, from + 1, from + real_batch_size),
                AllBits(real_batch_size, TRUE), MoveCursor(e1))
    IN  IF real_batch_size = 0 THEN Ret("nullptr", "jsonkey", <<>>, <<>>, e)
        ELSE vector(IF e.cached_index_chunk_id_ # 0
                    THEN [e EXCEPT !.cached_index_chunk_id_ = 0,
                                   !.cached_index_chunk_res_ = FilterByPath(e),
                                   !.index_queries = @ + 1]
                    ELSE e)

ExecRangeVisitorImplJson(e, input, bitmap_input) ==
    LET real_batch_size == IF e.has_offset_input_ THEN Len(input) ELSE GetNextBatchSize(e)
        e1 == [e EXCEPT !.arg_inited_ = TRUE]
        res == AllBits(real_batch_size, FALSE)
        valid_res == AllBits(real_batch_size, TRUE)
        scan(column) ==
            IF e.has_offset_input_
            THEN ProcessDataByOffsets(column, e.op_type_, e.val, bitmap_input, input,
                                      res, valid_res, 0)
            ELSE ProcessDataChunks(column, e.op_type_, e.val, bitmap_input,
                                   e.current_data_global_pos_, res, valid_res, 0)
        vector(out) ==
            Ret("vector", "data", out.res, out.valid_res,
                IF e.has_offset_input_ THEN e1 ELSE MoveCursor(e1))
    IN  IF CanUseJsonKeyIndex /\ ~e.has_offset_input_
        THEN ExecRangeVisitorImplJsonForIndex(e)
        ELSE IF real_batch_size = 0 THEN Ret("nullptr", "data", <<>>, <<>>, e)
        ELSE IF e.op_type_ \notin JsonOps THEN Throw("OpTypeInvalid", "data", e1)
        ELSE vector(scan("JSON"))

\* SegmentExpr::CanUseNgramIndexForJson
CanUseNgramIndexForJson == segment.ngram_min_gram > 0

CanExecNgramMatchForJson(e) ==
    e.val.case = "kStringVal" /\ e.op_type_ \in NgramOps /\ ~e.has_offset_input_
    /\ CanUseNgramIndexForJson

\* segment_->HasIndex(field_id_, pointer, val_type)
HasJsonIndex == segment.scalar_index = "suitable"

CanUseIndexForJson(e) ==
    IF e.val.case = "kStringVal"
    THEN HasJsonIndex /\ e.op_type_ \notin {"Match", "PostfixMatch", "InnerMatch"}
    ELSE HasJsonIndex

\* Eval, case DataType::JSON
EvalJson(e, input, bitmap_input) ==
    LET IndexType == CASE e.val.case = "kBoolVal" -> "bool"
                       [] e.val.case \in {"kInt64Val", "kFloatVal"} -> "double"
                       [] e.val.case = "kStringVal" -> "string"
                       [] OTHER -> "unknown"
        scans(e2) ==
            IF e2.use_index_ /\ ~e2.has_offset_input_
            THEN IF IndexType = "unknown" THEN Throw("DataTypeInvalid", "none", e2)
                 ELSE ExecRangeVisitorImplForIndex(IndexType, e2)
            ELSE ExecRangeVisitorImplJson(e2, input, bitmap_input)
        indexed(e1) == scans([e1 EXCEPT !.use_index_ = CanUseIndexForJson(e1)])
        after(ngram) == IF ngram.ret = "vector" THEN ngram ELSE indexed(ngram.expr)
    IN  IF CanExecNgramMatchForJson(e) /\ ~e.has_offset_input_
        THEN after(ExecNgramMatch(e))
        ELSE indexed(e)

\* ----------------------------------------------------------- ARRAY columns
ArrayOps == CompareOps \cup NgramOps

ExecRangeVisitorImplArray(e, input, bitmap_input) ==
    LET real_batch_size == IF e.has_offset_input_ THEN Len(input) ELSE GetNextBatchSize(e)
        e1 == [e EXCEPT !.arg_inited_ = TRUE]
        res == AllBits(real_batch_size, FALSE)
        valid_res == AllBits(real_batch_size, TRUE)
        scan(column) ==
            IF e.has_offset_input_
            THEN ProcessDataByOffsets(column, e.op_type_, e.val, bitmap_input, input,
                                      res, valid_res, 0)
            ELSE ProcessDataChunks(column, e.op_type_, e.val, bitmap_input,
                                   e.current_data_global_pos_, res, valid_res, 0)
        vector(out) ==
            Ret("vector", "data", out.res, out.valid_res,
                IF e.has_offset_input_ THEN e1 ELSE MoveCursor(e1))
    IN  IF real_batch_size = 0 THEN Ret("nullptr", "data", <<>>, <<>>, e)
        ELSE IF e.op_type_ \notin ArrayOps THEN Throw("OpTypeInvalid", "data", e1)
        ELSE vector(scan("ARRAY"))

\* CanUseIndexForArray<milvus::Array>: an index that is neither HYBRID nor
\* BITMAP ("unsuitable"), over elements that are not floating point
CanUseIndexForArray(e) ==
    /\ e.is_index_mode_
    /\ segment.element_type_ \notin {"FLOAT", "DOUBLE"}
    /\ segment.scalar_index = "suitable"

\* the elements of the literal, each once, in their order
RECURSIVE Distinct(_)
Distinct(s) ==
    IF s = <<>> THEN <<>>
    ELSE LET front == Distinct(SubSeq(s, 1, Len(s) - 1))
             last == s[Len(s)]
         IN  IF \E k \in 1 .. Len(front) : front[k] = last THEN front
             ELSE Append(front, last)

\* Index::InApplyCallback(1, &elem, callback): the rows whose array holds elem
RowsHolding(elem) ==
    {r \in 1 .. Len(segment.data) :
        segment.valid_data[r] /\ \E k \in 1 .. Len(segment.data[r]) : segment.data[r][k] = elem}

\* the in-filter of ExecArrayEqualForIndex: from element idx on, with the
\* candidates left by the elements before it
RECURSIVE Candidates(_, _, _, _)
Candidates(elems, idx, candidates, active_count) ==
    IF idx > Len(elems) THEN candidates
    ELSE LET now == IF idx = 1 THEN RowsHolding(elems[idx])
                    ELSE candidates \cap RowsHolding(elems[idx])
         IN  IF Cardinality(now) * 100 < active_count THEN now
             ELSE Candidates(elems, idx + 1, now, active_count)

ExecArrayEqualForIndex(e, input, bitmap_input, reverse) ==
    LET real_batch_size == GetNextBatchSize(e)
        from == e.current_data_global_pos_
        post_filter(candidates) ==
            [r \in 1 .. e.active_count_ |->
                r \in candidates /\ ((segment.data[r] = e.val.v) # reverse)]
        vector(res) ==
            Ret("vector", "index",
                SubSeq(res, from + 1, from + real_batch_size),
                SubSeq(segment.valid_data, from + 1, from + real_batch_size),
                MoveCursor(e))
    IN  IF real_batch_size = 0 THEN Ret("nullptr", "index", <<>>, <<>>, e)
        ELSE IF Len(e.val.v) = 0 THEN ExecRangeVisitorImplArray(e, input, bitmap_input)
        ELSE vector(post_filter(Candidates(Distinct(e.val.v), 1, {}, e.active_count_)))

\* ExecRangeVisitorImplArrayForIndex<proto::plan::Array>
ExecRangeVisitorImplArrayForIndex(e, input, bitmap_input) ==
    IF e.op_type_ \in {"Equal", "NotEqual"}
    THEN ExecArrayEqualForIndex(e, input, bitmap_input, e.op_type_ = "NotEqual")
    ELSE ExecRangeVisitorImplArray(e, input, bitmap_input)

\* Eval, case DataType::ARRAY
EvalArray(e, input, bitmap_input) ==
    LET indexed == ~e.has_offset_input_ /\ CanUseIndexForArray(e)
        scans(e1) ==
            IF e.val.case = "kArrayVal" /\ indexed
            THEN ExecRangeVisitorImplArrayForIndex(e1, input, bitmap_input)
            ELSE ExecRangeVisitorImplArray(e1, input, bitmap_input)
    IN  scans(IF e.val.case # "kArrayVal" THEN [e EXCEPT !.use_index_ = FALSE]
              ELSE IF e.has_offset_input_ THEN e
              ELSE [e EXCEPT !.use_index_ = indexed])

\* PhyUnaryRangeFilterExpr::Eval on context (input, bitmap_input)
Eval(input, bitmap_input) ==
    LET e == [expr EXCEPT !.has_offset_input_ = (input # Nullptr)]
        returns(r) ==
            /\ expr' = r.expr
            /\ eval' = [input |-> input, bitmap_input |-> bitmap_input, before |-> expr,
                        ret |-> r.ret, path |-> r.path, res |-> r.res, valid |-> r.valid,
                        error |-> r.error,
                        offset_calls |->
                            eval.offset_calls + (IF input = Nullptr THEN 0 ELSE 1)]
    IN  /\ returns(CASE segment.data_type_ \in PrimitiveTypes ->
                            ExecRangeVisitorImpl(segment.data_type_, e, input, bitmap_input)
                     [] segment.data_type_ = "JSON" -> EvalJson(e, input, bitmap_input)
                     [] segment.data_type_ = "ARRAY" -> EvalArray(e, input, bitmap_input)
                     [] OTHER -> Throw("DataTypeInvalid", "none", e))
        /\ UNCHANGED <<segment, slotVars>>

\* ------------------------------------------------------ executor systems
MaxRows == 2
MaxOffsets == 2
MaxOffsetCalls == 1
BatchSizes == {3}
ChunkSizes == {2}

\* the contexts an Eval call can be made on: no offset input and an optional
\* bitmap_input over the next batch, or up to MaxOffsets row offsets and an
\* optional bitmap_input over them
OffsetInputs == UNION {[1 .. n -> 0 .. (Len(segment.data) - 1)] : n \in 1 .. MaxOffsets}
BitmapInputs(n) == {NoBitmap} \cup (IF n = 0 THEN {} ELSE [1 .. n -> BOOLEAN])

EvalBatch == \E b \in BitmapInputs(GetNextBatchSize(expr)) : Eval(Nullptr, b)
EvalOffsets ==
    /\ eval.offset_calls < MaxOffsetCalls
    /\ \E input \in OffsetInputs : \E b \in BitmapInputs(Len(input)) : Eval(input, b)

\* the expression as its constructor leaves it
NewExpr(op, val, extra, batch, rows, index_mode) ==
    [op_type_ |-> op, val |-> val, extra_values_ |-> extra,
     batch_size_ |-> batch, active_count_ |-> rows, is_index_mode_ |-> index_mode,
     current_data_global_pos_ |-> 0, overflow_check_pos_ |-> 0,
     arg_inited_ |-> FALSE, has_offset_input_ |-> FALSE, use_index_ |-> FALSE,
     cached_match_res_ |-> NoBitmap, cached_ngram_match_res_ |-> NoBitmap,
     cached_index_chunk_valid_res_ |-> NoBitmap,
     cached_index_chunk_id_ |-> -1, cached_index_chunk_res_ |-> NoBitmap,
     index_queries |-> 0, index_slop |-> <<0, 0>>]

NoEval(e) ==
    [input |-> Nullptr, bitmap_input |-> NoBitmap, before |-> e, ret |-> "none",
     path |-> "none", res |-> <<>>, valid |-> <<>>, error |-> "none", offset_calls |-> 0]

\* a column of rows, each a value and whether it is non-null
Segment(T, rows, chunk, index, text_rows, min_gram) ==
    [data_type_ |-> T, element_type_ |-> "NONE", nested_index |-> -1, json_key_index |-> FALSE,
     json_inline |-> FALSE,
     data |-> [i \in 1 .. Len(rows) |-> rows[i].v],
     valid_data |-> [i \in 1 .. Len(rows) |-> rows[i].ok],
     nullable |-> \E i \in 1 .. Len(rows) : ~rows[i].ok,
     chunk_rows |-> chunk, scalar_index |-> index,
     text_rows |-> text_rows, ngram_min_gram |-> min_gram]

Row(v) == [v |-> v, ok |-> TRUE]
ColumnsOf(rowset) == UNION {[1 .. n -> rowset] : n \in 1 .. MaxRows}
OneRow(rowset) == {<<r>> : r \in rowset}

\* ---- integral columns
IntRows == {Row(2), Row(3), [v |-> 0, ok |-> FALSE]}
S1Column == <<Row(1), Row(2), Row(3), [v |-> 0, ok |-> FALSE], Row(5)>>
IntColumns == ColumnsOf(IntRows) \cup {S1Column}
\* a column type with a literal: below INT8, above INT8, and inside the type
IntPredicates == {<<"INT8", -129>>, <<"INT8", 1000>>, <<"INT8", 2>>, <<"INT32", 2>>}

InitInt ==
    /\ SlotOn(0, "IDENTICAL", Zero, UnitSizes(0), "Disable")
    /\ \E p \in IntPredicates, rows \in IntColumns, chunk \in ChunkSizes,
          index \in {"none", "suitable"}, op \in CompareOps, batch \in BatchSizes :
           /\ segment = Segment(p[1], rows, chunk, index, 0, 0)
           /\ expr = NewExpr(op, p[2], <<>>, batch, Len(rows), index # "none")
    /\ eval = NoEval(expr)

NextInt == EvalBatch \/ EvalOffsets

SpecInt == InitInt /\ [][NextInt]_vars

\* ---- VARCHAR columns: "a", "ap" and null; literals "a", "ap" and the LIKE
\* pattern "a%"
StrRows == {Row(<<97>>), Row(<<97, 112>>), [v |-> <<>>, ok |-> FALSE]}
StrColumns == ColumnsOf(StrRows)
StrLiterals == {<<97>>, <<97, 112>>, <<97, 37>>}
StrOps == NgramOps \cup TextOps \cup {"Equal"}
StrBatchSizes == {1}

\* the slop of a phrase match: absent or 1
Slops(op) == IF op = "PhraseMatch" THEN {<<>>, <<(<<0, 1>>)>>} ELSE {<<>>}

\* a text index is built for the text ops, and may trail a growing segment by a row
TextRows(op, rows) == IF op \in TextOps THEN {Len(rows) - 1, Len(rows)} ELSE {0}

InitStr ==
    /\ SlotOn(0, "IDENTICAL", Zero, UnitSizes(0), "Disable")
    /\ \E rows \in StrColumns, chunk \in ChunkSizes, index \in {"none", "suitable"},
          min_gram \in {0, 2}, op \in StrOps, val \in StrLiterals, batch \in StrBatchSizes :
         \E text_rows \in TextRows(op, rows), extra \in Slops(op) :
           /\ segment = Segment("VARCHAR", rows, chunk, index, text_rows, min_gram)
           /\ expr = NewExpr(op, val, extra, batch, Len(rows), index # "none")
    /\ eval = NoEval(expr)

NextStr == EvalBatch \/ EvalOffsets

SpecStr == InitStr /\ [][NextStr]_vars

\* ---- text and phrase match on VARCHAR columns of up to MaxTextRows rows
\* whose text index holds any prefix of the rows (a growing segment), with
\* slops absent, 0, 1, UINT32_MAX, -1 and UINT32_MAX + 1
MaxTextRows == 3
TextColumns == UNION {[1 .. n -> StrRows] : n \in 1 .. MaxTextRows}
TextSlops(op) ==
    IF op = "PhraseMatch"
    THEN {<<>>, <<WideZero>>, <<(<<0, 1>>)>>, <<UINT32_MAX>>, <<(<<-1, 65535>>)>>,
          <<(<<65536, 0>>)>>}
    ELSE {<<>>}

InitText ==
    /\ SlotOn(0, "IDENTICAL", Zero, UnitSizes(0), "Disable")
    /\ \E rows \in TextColumns, op \in TextOps, val \in {<<97, 112>>} :
         \E text_rows \in 0 .. Len(rows), extra \in TextSlops(op), batch \in {1, Len(rows)} :
           /\ segment = Segment("VARCHAR", rows, 2, "none", text_rows, 0)
           /\ expr = NewExpr(op, val, extra, batch, Len(rows), FALSE)
    /\ eval = NoEval(expr)

NextText == EvalBatch \/ EvalOffsets

SpecText == InitText /\ [][NextText]_vars

\* ---- JSON columns: the value under the expression's pointer is absent, 1,
\* 1.0 (tenths), "a", [1, 2], or the row is null
JsonDoc(t, v) == [t |-> t, v |-> v]
JsonRowKinds == <<Row(JsonDoc("int", 1)), Row(JsonDoc("string", <<97>>)),
                  Row(JsonDoc("double", 10)), Row(JsonDoc("missing", 0)),
                  Row(JsonDoc("array", <<1, 2>>)),
                  [v |-> JsonDoc("missing", 0), ok |-> FALSE]>>
JsonRows == {JsonRowKinds[k] : k \in 1 .. Len(JsonRowKinds)}
Literal(case, v) == [case |-> case, v |-> v]
JsonNumberLiterals == {Literal("kInt64Val", 1), Literal("kFloatVal", 15)}
\* a literal with an operator the planner builds for it
JsonPredicates ==
    (JsonNumberLiterals \X CompareOps)
    \cup ({Literal("kStringVal", <<97>>), Literal("kStringVal", <<97, 112>>)}
          \X (NgramOps \cup {"Equal", "NotEqual"}))
    \cup ({Literal("kArrayVal", <<1, 2>>)} \X {"Equal", "NotEqual", "GreaterThan"})
    \cup ({Literal("kBoolVal", TRUE)} \X {"Equal", "NotEqual"})
\* the index built on the JSON field: none, a path index, a JSON-key index
\* that inlines no value or that inlines numbers and bools, or an n-gram index
JsonIndexes == {"none", "path", "key", "key_inline", "ngram"}

\* one row at a time, or the whole column in one batch; a scenario column
\* (longer than MaxRows) in one batch
JsonBatchSizes(rows) == IF Len(rows) > MaxRows THEN {Len(rows)} ELSE {1, Len(rows)}

JsonSystem(columns) ==
    /\ SlotOn(0, "IDENTICAL", Zero, UnitSizes(0), "Disable")
    /\ \E rows \in columns, chunk \in ChunkSizes, index \in JsonIndexes,
          p \in JsonPredicates :
         \E batch \in JsonBatchSizes(rows) :
           /\ segment = [Segment("JSON", rows, chunk,
                                 IF index = "path" THEN "suitable" ELSE "none", 0,
                                 IF index = "ngram" THEN 2 ELSE 0)
                            EXCEPT !.json_key_index = (index \in {"key", "key_inline"}),
                                   !.json_inline = (index = "key_inline")]
           /\ expr = NewExpr(p[2], p[1], <<>>, batch, Len(rows), index = "path")
    /\ eval = NoEval(expr)

\* scenario S4: {"k":1}, {"k":"1"}, {"k":1.0}, {}
S4Column == <<Row(JsonDoc("int", 1)), Row(JsonDoc("string", <<49>>)),
              Row(JsonDoc("double", 10)), Row(JsonDoc("missing", 0))>>
\* one row, two rows of different kinds, and S4
JsonColumns ==
    OneRow(JsonRows)
    \cup {<<JsonRowKinds[p[1]], JsonRowKinds[p[2]]>> :
              p \in {q \in (1 .. Len(JsonRowKinds)) \X (1 .. Len(JsonRowKinds)) : q[1] < q[2]}}
    \cup {S4Column}

InitJson == JsonSystem(JsonColumns)

NextJson == EvalBatch \/ EvalOffsets

SpecJson == InitJson /\ [][NextJson]_vars

\* ---- the paths that cache a full-column bitmap: text match and n-gram
\* match on VARCHAR columns of 2 or 3 rows (the n-gram index declines the
\* literal "a"), and JSON columns of 2 rows and S4 under a JSON-key index,
\* all evaluated in batches shorter than the column
CachedColumns == UNION {[1 .. n -> StrRows] : n \in 2 .. MaxTextRows}
CachedStrPredicates ==
    {<<op, val>> : op \in {"TextMatch", "PrefixMatch", "InnerMatch"},
                   val \in {<<97>>, <<97, 112>>}}
CachedJsonPredicates ==
    <<(<<Literal("kInt64Val", 1), "Equal">>), (<<Literal("kStringVal", <<97>>), "NotEqual">>)>>

InitCached ==
    /\ SlotOn(0, "IDENTICAL", Zero, UnitSizes(0), "Disable")
    /\ \/ \E rows \in CachedColumns, p \in CachedStrPredicates, batch \in {1, 2} :
            \E text_rows \in (IF p[1] \in TextOps THEN 0 .. Len(rows) ELSE {0}) :
              /\ segment = Segment("VARCHAR", rows, 2, "none", text_rows,
                                   IF p[1] \in TextOps THEN 0 ELSE 2)
              /\ expr = NewExpr(p[1], p[2], <<>>, batch, Len(rows), FALSE)
       \/ \E rows \in JsonColumns, k \in 1 .. Len(CachedJsonPredicates),
             inline \in BOOLEAN, batch \in {1, 3} :
              /\ Len(rows) > 1
              /\ segment = [Segment("JSON", rows, 2, "none", 0, 0)
                               EXCEPT !.json_key_index = TRUE, !.json_inline = inline]
              /\ expr = NewExpr(CachedJsonPredicates[k][2], CachedJsonPredicates[k][1],
                                <<>>, batch, Len(rows), FALSE)
    /\ eval = NoEval(expr)

NextCached == EvalBatch \/ EvalOffsets

SpecCached == InitCached /\ [][NextCached]_vars

\* ---- ARRAY columns of integers or doubles (tenths): [1, 2], [3], [] and null
ArrayRows == {Row(<<1, 2>>), Row(<<3>>), Row(<<>>), [v |-> <<>>, ok |-> FALSE]}
\* an element literal at nested index 0, or a whole-array literal
ArrayPredicates ==
    ({<<Literal("kInt64Val", 1), 0>>} \X CompareOps)
    \cup ({<<Literal("kArrayVal", <<1, 2>>), -1>>, <<Literal("kArrayVal", <<>>), -1>>}
          \X {"Equal", "NotEqual", "GreaterThan"})
\* "unsuitable" is a HYBRID or BITMAP index
ArrayIndexes == {"none", "suitable", "unsuitable"}
ElementTypes == {"INT32", "DOUBLE"}

ArraySystem(columns) ==
    /\ SlotOn(0, "IDENTICAL", Zero, UnitSizes(0), "Disable")
    /\ \E rows \in columns, chunk \in ChunkSizes, index \in ArrayIndexes,
          elem \in ElementTypes, p \in ArrayPredicates, batch \in StrBatchSizes :
           /\ segment = [Segment("ARRAY", rows, chunk, index, 0, 0)
                            EXCEPT !.element_type_ = elem, !.nested_index = p[1][2]]
           /\ expr = NewExpr(p[2], p[1][1], <<>>, batch, Len(rows), index # "none")
    /\ eval = NoEval(expr)

\* ---- ARRAY columns for whole-array comparison: scenario S5, and columns of
\* one or two rows holding the literal, a permutation of it, another array, the
\* empty array or null
ArrayRowKinds ==
    <<Row(<<1, 2>>), Row(<<2, 1>>), Row(<<3>>), Row(<<>>), [v |-> <<>>, ok |-> FALSE]>>
S5Column == <<Row(<<1, 2>>), Row(<<3>>), Row(<<>>), Row(<<1, 2>>)>>
ArrayColumns ==
    {<<ArrayRowKinds[k]>> : k \in 1 .. Len(ArrayRowKinds)}
    \cup {<<ArrayRowKinds[p[1]], ArrayRowKinds[p[2]]>> :
             p \in (1 .. Len(ArrayRowKinds)) \X (1 .. Len(ArrayRowKinds))}
    \cup {S5Column}

InitArray == ArraySystem(ArrayColumns)

NextArray == EvalBatch \/ EvalOffsets

SpecArray == InitArray /\ [][NextArray]_vars

\* --------------------------------------------------- ChunkedColumnInterface
\* The column is segment: its data type, the validity of its rows and the
\* bulk operations its class overrides. eval is the last bulk call: the
\* method, the offsets (Nullptr for all rows), how it ended and the callback
\* invocations fn(value, offset, is_valid) it made, in order.
BulkMethods == {"BulkRawStringAt", "BulkRawJsonAt", "BulkArrayAt", "BulkVectorArrayAt"}

\* ChunkedColumnInterface::IsChunkedVariableColumnDataType
IsChunkedVariableColumnDataType(data_type) == data_type \in {"STRING", "VARCHAR", "TEXT", "JSON"}

\* ChunkedColumnInterface::IsChunkedArrayColumnDataType
IsChunkedArrayColumnDataType(data_type) == data_type = "ARRAY"

\* ChunkedColumnInterface::IsChunkedVectorArrayColumnDataType
IsChunkedVectorArrayColumnDataType(data_type) == data_type = "VECTOR_ARRAY"

\* the bulk operations a column class may override, by the class of its data
\* type: the raw string and raw JSON accessors belong to the variable-length
\* column (the JSON one to a JSON column), the array accessor to the array
\* column, the vector-array accessor to the vector-array column
Overridable(data_type) ==
    IF IsChunkedVariableColumnDataType(data_type)
    THEN IF data_type = "JSON" THEN {{"BulkRawJsonAt"}, {"BulkRawStringAt", "BulkRawJsonAt"}}
         ELSE {{"BulkRawStringAt"}}
    ELSE IF IsChunkedArrayColumnDataType(data_type) THEN {{"BulkArrayAt"}}
    ELSE IF IsChunkedVectorArrayColumnDataType(data_type) THEN {{"BulkVectorArrayAt"}}
    ELSE {{}}

NoBulkCall ==
    [method |-> "none", offsets |-> Nullptr, count |-> 0, ret |-> "none", error |-> "none",
     callbacks |-> <<>>]

\* the base-class body running fn on the first row before it throws
ThrowUnsupportedAfterFirstRow(method, offsets, count) ==
    [method |-> method, offsets |-> offsets, count |-> count, ret |-> "throw",
     error |-> "Unsupported",
     callbacks |-> IF count > 0 /\ offsets # Nullptr
                   THEN <<[offset |-> offsets[1], is_valid |-> FALSE]>> ELSE <<>>]

\* the base-class body: ThrowInfo(ErrorCode::Unsupported, ...)
ThrowUnsupported(method, offsets, count) ==
    [method |-> method, offsets |-> offsets, count |-> count, ret |-> "throw",
     error |-> "Unsupported", callbacks |-> <<>>]

\* an overriding class: fn on every offset, on every row for null offsets
Iterate(method, offsets, count) ==
    LET rows == IF offsets = Nullptr THEN [i \in 1 .. Len(segment.valid_data) |-> i - 1]
                ELSE SubSeq(offsets, 1, count)
    IN  [method |-> method, offsets |-> offsets, count |-> count, ret |-> "void",
         error |-> "none",
         callbacks |-> [i \in 1 .. Len(rows) |->
                          [offset |-> rows[i], is_valid |-> segment.valid_data[rows[i] + 1]]]]

\* the virtual dispatch of a bulk call
BulkCall(method, offsets, count) ==
    /\ eval' = IF method \in segment.overrides THEN Iterate(method, offsets, count)
               ELSE ThrowUnsupported(method, offsets, count)
    /\ UNCHANGED <<segment, expr, slotVars>>

\* the offsets and count of a bulk call
BulkOffsets ==
    {<<input, Len(input)>> : input \in OffsetInputs} \cup {<<input, 0>> : input \in OffsetInputs}

BulkRawStringAt ==
    \/ \E a \in BulkOffsets : BulkCall("BulkRawStringAt", a[1], a[2])
    \/ BulkCall("BulkRawStringAt", Nullptr, 0)

BulkRawJsonAt == \E a \in BulkOffsets : BulkCall("BulkRawJsonAt", a[1], a[2])

BulkArrayAt == \E a \in BulkOffsets : BulkCall("BulkArrayAt", a[1], a[2])

BulkVectorArrayAt == \E a \in BulkOffsets : BulkCall("BulkVectorArrayAt", a[1], a[2])

ColumnTypes == {"INT32", "DOUBLE", "VARCHAR", "JSON", "ARRAY", "VECTOR_ARRAY"}

InitColumn ==
    /\ SlotOn(0, "IDENTICAL", Zero, UnitSizes(0), "Disable")
    /\ \E data_type \in ColumnTypes, n \in 1 .. MaxRows :
         \E valid_data \in [1 .. n -> BOOLEAN], overrides \in Overridable(data_type) :
           segment = [data_type_ |-> data_type, data |-> [i \in 1 .. n |-> 0],
                      valid_data |-> valid_data, overrides |-> overrides]
    /\ expr = <<>>
    /\ eval = NoBulkCall

NextColumn == BulkRawStringAt \/ BulkRawJsonAt \/ BulkArrayAt \/ BulkVectorArrayAt

SpecColumn == InitColumn /\ [][NextColumn]_vars

\* ---- every column type, on columns of one row

InitDispatch ==
    \/ /\ SlotOn(0, "IDENTICAL", Zero, UnitSizes(0), "Disable")
       /\ \E p \in IntPredicates, rows \in OneRow(IntRows), chunk \in ChunkSizes,
             index \in {"none", "suitable"}, op \in CompareOps, batch \in StrBatchSizes :
              /\ segment = Segment(p[1], rows, chunk, index, 0, 0)
              /\ expr = NewExpr(op, p[2], <<>>, batch, Len(rows), index # "none")
       /\ eval = NoEval(expr)
    \/ /\ SlotOn(0, "IDENTICAL", Zero, UnitSizes(0), "Disable")
       /\ \E rows \in OneRow(StrRows), chunk \in ChunkSizes, index \in {"none", "suitable"},
             min_gram \in {0, 2}, op \in StrOps, val \in StrLiterals, batch \in StrBatchSizes :
            \E text_rows \in TextRows(op, rows), extra \in Slops(op) :
              /\ segment = Segment("VARCHAR", rows, chunk, index, text_rows, min_gram)
              /\ expr = NewExpr(op, val, extra, batch, Len(rows), index # "none")
       /\ eval = NoEval(expr)
    \/ JsonSystem(OneRow(JsonRows))
    \/ ArraySystem(OneRow(ArrayRows))

NextDispatch == EvalBatch \/ EvalOffsets

SpecDispatch == InitDispatch /\ [][NextDispatch]_vars

\* ---------------------------------------------------------------- PinWrapper
\* The wrappers of a scope are expr: wrapper w is alive or not, and an alive
\* one has raii_ (0 is the std::any holding nullptr, k > 0 a shared handle on
\* accessor k) and content_.  segment holds the accessors, each with the cell
\* it pins and the number of handles on it, and the pin count of every cell;
\* an accessor whose last handle goes is destroyed and its pin released.
\* eval is the last operation.  content_ is a chunk pointer (the cell it
\* points into): moving it from a wrapper leaves it as it was.
NumWrappers == 3
MaxAccessors == 2
MaxWrapperOps == 5
Wrappers == 1 .. NumWrappers
WrapperCells == 0 .. 1

\* a handle on accessor k is dropped: ~shared_ptr, and ~CellAccessor with its
\* NodePin when it was the last
DropHandle(seg, k) ==
    IF k = 0 THEN seg
    ELSE IF seg.accessors[k].use_count = 1
         THEN [seg EXCEPT !.accessors[k].use_count = 0,
                          !.pin_count[seg.accessors[k].cell] = @ - 1]
    ELSE [seg EXCEPT !.accessors[k].use_count = @ - 1]

\* a handle on accessor k is copied
CopyHandle(seg, k) ==
    IF k = 0 THEN seg ELSE [seg EXCEPT !.accessors[k].use_count = @ + 1]

Wrapper(raii, content) == [alive |-> TRUE, raii_ |-> raii, content_ |-> content]
NoWrapper == [alive |-> FALSE, raii_ |-> 0, content_ |-> -1]

\* the operation op on wrapper a, from wrapper b, leaves the wrappers ws and
\* the accessors seg
WrapperDone(op, a, b, ws, seg) ==
    /\ eval.seq < MaxWrapperOps
    /\ expr' = ws
    /\ segment' = seg
    /\ eval' = [op |-> op, a |-> a, b |-> b, seq |-> eval.seq + 1]
    /\ UNCHANGED slotVars

\* PinWrapper(std::any raii, T&& content) on the accessor a pin call returned
PinWrapperPinned(a, k, c) ==
    /\ ~expr[a].alive
    /\ segment.accessors[k].use_count = 0
    /\ WrapperDone("construct", a, a, [expr EXCEPT ![a] = Wrapper(k, c)],
                   [segment EXCEPT !.accessors[k] = [cell |-> c, use_count |-> 1],
                                   !.pin_count[c] = @ + 1])

\* PinWrapper(T&& content): no pin is needed
PinWrapperUnpinned(a, c) ==
    /\ ~expr[a].alive
    /\ WrapperDone("construct", a, a, [expr EXCEPT ![a] = Wrapper(0, c)], segment)

\* PinWrapper(PinWrapper&& other)
MoveConstruct(a, b) ==
    /\ ~expr[a].alive /\ expr[b].alive
    /\ WrapperDone("move", a, b,
                   [expr EXCEPT ![a] = Wrapper(expr[b].raii_, expr[b].content_),
                                ![b].raii_ = 0],
                   segment)

\* PinWrapper(const PinWrapper& other)
CopyConstruct(a, b) ==
    /\ ~expr[a].alive /\ expr[b].alive
    /\ WrapperDone("copy", a, b,
                   [expr EXCEPT ![a] = Wrapper(expr[b].raii_, expr[b].content_)],
                   CopyHandle(segment, expr[b].raii_))

\* operator=(PinWrapper&& other): the two wrappers are swapped
MoveAssign(a, b) ==
    /\ expr[a].alive /\ expr[b].alive
    /\ WrapperDone("move_assign", a, b,
                   IF a = b THEN expr
                   ELSE [expr EXCEPT ![a].raii_ = expr[b].raii_,
                                     ![a].content_ = expr[b].content_,
                                     ![b].raii_ = expr[a].raii_,
                                     ![b].content_ = expr[a].content_],
                   segment)

\* operator=(const PinWrapper& other)
CopyAssign(a, b) ==
    /\ expr[a].alive /\ expr[b].alive
    /\ WrapperDone("copy_assign", a, b,
                   IF a = b THEN expr
                   ELSE [expr EXCEPT ![a].raii_ = expr[b].raii_,
                                     ![a].content_ = expr[b].content_],
                   IF a = b THEN segment
                   ELSE DropHandle(CopyHandle(segment, expr[b].raii_), expr[a].raii_))

\* the transformer of the model: the chunk pointer to a view of the chunk
Transformer(content) == content + 10

\* other.transform<T2>(transformer) &&, returned into wrapper a
transform(a, b) ==
    /\ ~expr[a].alive /\ expr[b].alive
    /\ WrapperDone("transform", a, b,
                   [expr EXCEPT ![a] = Wrapper(expr[b].raii_, Transformer(expr[b].content_)),
                                ![b].raii_ = 0],
                   segment)

\* ~PinWrapper
DestroyWrapper(a) ==
    /\ expr[a].alive
    /\ WrapperDone("destroy", a, a, [expr EXCEPT ![a] = NoWrapper],
                   DropHandle(segment, expr[a].raii_))

InitWrapper ==
    /\ SlotOn(0, "IDENTICAL", Zero, UnitSizes(0), "Disable")
    /\ segment = [pin_count |-> [c \in WrapperCells |-> 0],
                  accessors |-> [k \in 1 .. MaxAccessors |-> [cell |-> 0, use_count |-> 0]]]
    /\ expr = [w \in Wrappers |-> NoWrapper]
    /\ eval = [op |-> "none", a |-> 0, b |-> 0, seq |-> 0]

NextWrapper ==
    \E a \in Wrappers :
        \/ \E k \in 1 .. MaxAccessors, c \in WrapperCells : PinWrapperPinned(a, k, c)
        \/ \E c \in WrapperCells : PinWrapperUnpinned(a, c)
        \/ DestroyWrapper(a)
        \/ \E b \in Wrappers :
               \/ MoveConstruct(a, b)
               \/ CopyConstruct(a, b)
               \/ MoveAssign(a, b)
               \/ CopyAssign(a, b)
               \/ transform(a, b)

SpecWrapper == InitWrapper /\ [][NextWrapper]_vars

\* ----------------------------------------------------- executor properties
\* an Eval call has returned or thrown
Evaluated == eval.ret # "none"

\* the rows (0-based) the last Eval call was made on
BatchRows ==
    IF eval.input # Nullptr THEN eval.input
    ELSE [i \in 1 .. GetNextBatchSize(eval.before) |->
             eval.before.current_data_global_pos_ + i - 1]

IsNullRow(r) == ~segment.valid_data[r + 1]

\* no value of the column's type is excluded by the out-of-range literal
OverflowAllTrue ==
    \/ expr.op_type_ \in {"GreaterThan", "GreaterEqual"} /\ expr.val < TypeMin(segment.data_type_)
    \/ expr.op_type_ \in {"LessThan", "LessEqual"} /\ expr.val > TypeMax(segment.data_type_)
    \/ expr.op_type_ = "NotEqual"

\* C16: for an integral column and a literal outside its range, every Eval
\* call is answered by the pre-check and by no scan, in index mode and in data
\* mode alike: the result is all-true masked by valid for > and >= with a
\* literal below the minimum, for < and <= with a literal above the maximum
\* and for !=, and all-false otherwise (> and >= above the maximum, < and <=
\* below the minimum, =).
C16_OverflowShortCircuit ==
    (Evaluated /\ segment.data_type_ \in IntegralTypes
        /\ (expr.val < TypeMin(segment.data_type_) \/ expr.val > TypeMax(segment.data_type_)))
    => /\ eval.ret = "vector"
       /\ eval.path = "overflow"
       /\ Len(eval.res) = Len(BatchRows)
       /\ \A i \in 1 .. Len(BatchRows) :
              eval.res[i] = (OverflowAllTrue /\ ~IsNullRow(BatchRows[i]))

\* S2 on an indexed column: INT8, literal 1000, >=, a batch with a non-null row
C16_Witness ==
    /\ Evaluated
    /\ segment.data_type_ = "INT8" /\ expr.val = 1000 /\ expr.op_type_ = "GreaterEqual"
    /\ expr.is_index_mode_
    /\ eval.path = "overflow"
    /\ \E i \in 1 .. Len(BatchRows) : ~IsNullRow(BatchRows[i]) /\ ~eval.res[i]

\* row i of the last call's batch was not excluded by the upstream bitmap_input
Scanned(i) == eval.bitmap_input = NoBitmap \/ eval.bitmap_input[i]

\* v OP L on integers
Compares(op, v, L) ==
    CASE op = "GreaterThan" -> v > L
      [] op = "GreaterEqual" -> v >= L
      [] op = "LessThan" -> v < L
      [] op = "LessEqual" -> v <= L
      [] op = "Equal" -> v = L
      [] op = "NotEqual" -> v # L

\* the call was left to the data scan: an integral column, a literal inside
\* its range, and no index or an offset input
DataScanCase ==
    /\ Evaluated
    /\ segment.data_type_ \in IntegralTypes
    /\ expr.val >= TypeMin(segment.data_type_) /\ expr.val <= TypeMax(segment.data_type_)
    /\ expr.op_type_ \in CompareOps
    /\ (~expr.is_index_mode_ \/ eval.input # Nullptr)

C18_NullRowsInvalid ==
    (Evaluated /\ eval.ret = "vector")
    => \A i \in 1 .. Len(BatchRows) :
           IsNullRow(BatchRows[i]) => (~eval.res[i] /\ ~eval.valid[i])

\* The same for the null rows that bitmap_input does not exclude from the scan.
NullRowsInvalidWhenScanned ==
    (Evaluated /\ eval.ret = "vector")
    => \A i \in 1 .. Len(BatchRows) :
           (IsNullRow(BatchRows[i]) /\ (Scanned(i) \/ eval.path # "data"))
           => (~eval.res[i] /\ ~eval.valid[i])

\* A null row is never a match.
NullRowsNeverMatch ==
    (Evaluated /\ eval.ret = "vector")
    => \A i \in 1 .. Len(BatchRows) : IsNullRow(BatchRows[i]) => ~eval.res[i]

\* the last call went to the n-gram index and the index declined the query
NgramDeclined ==
    /\ Evaluated
    /\ eval.input = Nullptr
    /\ CanUseNgramIndex /\ expr.op_type_ \in NgramOps
    /\ Len(expr.val) < segment.ngram_min_gram
    /\ Len(BatchRows) > 0

\* what the data scan returns for the batch of the last call
DataScanOfBatch ==
    ExecRangeVisitorImplForData(segment.data_type_,
        [eval.before EXCEPT !.has_offset_input_ = FALSE], Nullptr, eval.bitmap_input)

OffsetCall == Evaluated /\ eval.input # Nullptr

\* the data scan of the column's type, on the input of the last Eval call
DataScanOfCall ==
    LET e == [eval.before EXCEPT !.has_offset_input_ = TRUE,
                                 !.use_index_ = expr.use_index_]
    IN  CASE segment.data_type_ \in PrimitiveTypes ->
                 ExecRangeVisitorImplForData(segment.data_type_, e, eval.input,
                                             eval.bitmap_input)
          [] segment.data_type_ = "JSON" ->
                 ExecRangeVisitorImplJson(e, eval.input, eval.bitmap_input)
          [] segment.data_type_ = "ARRAY" ->
                 ExecRangeVisitorImplArray(e, eval.input, eval.bitmap_input)

\* the last Eval call was answered by the data scan: by its overflow
\* pre-check or its kernels, with its outcome, and with no index queried,
\* no bitmap cached and the cursor where it was
AnsweredByDataScan ==
    LET scan == DataScanOfCall
    IN  /\ eval.path \in {"data", "overflow"}
        /\ eval.ret = scan.ret /\ eval.error = scan.error
        /\ eval.res = scan.res /\ eval.valid = scan.valid
        /\ expr = scan.expr
        /\ expr.index_queries = eval.before.index_queries
        /\ expr.cached_match_res_ = eval.before.cached_match_res_
        /\ expr.cached_ngram_match_res_ = eval.before.cached_ngram_match_res_
        /\ expr.cached_index_chunk_res_ = eval.before.cached_index_chunk_res_
        /\ expr.current_data_global_pos_ = eval.before.current_data_global_pos_

\* the last Eval call was refused before any strategy ran
RefusedMatchQuery ==
    /\ eval.ret = "throw" /\ eval.error = "OpTypeInvalid" /\ eval.path = "none"
    /\ expr = [eval.before EXCEPT !.has_offset_input_ = TRUE]

Int64Equality ==
    /\ Evaluated /\ eval.ret = "vector"
    /\ segment.data_type_ = "JSON"
    /\ expr.val.case = "kInt64Val" /\ expr.op_type_ = "Equal"
    /\ eval.path \in {"data", "jsonkey"}

\* the document holds a number, integer or double, whose value is the literal's
NumberEqual(doc, val) == doc.t \in {"int", "double"} /\ Tenths(doc.t, doc.v) = 10 * val.v

\* the JSON data scan of the rows of the last Eval call, with no upstream bitmap
JsonScanOfBatch ==
    LET n == Len(BatchRows)
    IN  IF eval.input # Nullptr
        THEN ProcessDataByOffsets("JSON", expr.op_type_, expr.val, NoBitmap, eval.input,
                                  AllBits(n, FALSE), AllBits(n, TRUE), 0)
        ELSE ProcessDataChunks("JSON", expr.op_type_, expr.val, NoBitmap,
                               eval.before.current_data_global_pos_,
                               AllBits(n, FALSE), AllBits(n, TRUE), 0)

\* C21: JSON equality against an int64 literal is true on a row exactly when
\* the value under the key is a number of the literal's value, stored as an
\* integer or as a double; a string, a missing key and a null row never
\* match; and the JSON-key index path returns the bits of the JSON data scan
C21_JsonInt64Equality ==
    Int64Equality =>
        /\ Len(eval.res) = Len(BatchRows)
        /\ \A i \in 1 .. Len(eval.res) :
              (eval.path = "jsonkey" \/ Scanned(i)) =>
                  (eval.res[i] <=> /\ ~IsNullRow(BatchRows[i])
                                   /\ NumberEqual(segment.data[BatchRows[i] + 1], expr.val))
        /\ eval.path = "jsonkey" => eval.res = JsonScanOfBatch.res

\* scenario S4 through the JSON-key index: k = 1 gives [1, 0, 1, 0]
C21_Witness ==
    /\ Int64Equality
    /\ eval.path = "jsonkey"
    /\ [i \in 1 .. Len(segment.data) |-> segment.data[i].t]
           = <<"int", "string", "double", "missing">>
    /\ segment.data[1].v = 1 /\ segment.data[3].v = 10
    /\ expr.val.v = 1
    /\ eval.res = <<TRUE, FALSE, TRUE, FALSE>>

\* ---------------------------------------------------------------- C22
\* the last Eval call compared an ARRAY column with a whole-array literal by
\* = or != and returned a vector
WholeArrayCompare ==
    /\ Evaluated /\ eval.ret = "vector"
    /\ segment.data_type_ = "ARRAY"
    /\ expr.val.case = "kArrayVal" /\ expr.op_type_ \in {"Equal", "NotEqual"}

\* deep equality decides row r (0-based): = on the equal arrays, != on the
\* other non-null rows
DeepCompare(r) ==
    /\ ~IsNullRow(r)
    /\ (segment.data[r + 1] = expr.val.v) <=> (expr.op_type_ = "Equal")

\* every evaluated row of the call carries the bit of the deep comparison
DeepCompared ==
    /\ Len(eval.res) = Len(BatchRows)
    /\ \A i \in 1 .. Len(eval.res) :
          (eval.path = "index" \/ Scanned(i)) => (eval.res[i] <=> DeepCompare(BatchRows[i]))

\* C22: for an ARRAY column and a whole-array literal, = is true exactly on
\* the rows whose array is deeply equal to the literal and != exactly on the
\* other non-null rows, on the data scan and on the index-assisted path alike
C22_WholeArrayCompareIsDeep == WholeArrayCompare => DeepCompared

\* the data scan compares deeply for both operators
ArrayScanIsDeep == WholeArrayCompare /\ eval.path = "data" => DeepCompared

\* the index-assisted path compares deeply for =
ArrayIndexEqualIsDeep ==
    WholeArrayCompare /\ eval.path = "index" /\ expr.op_type_ = "Equal" => DeepCompared

\* on the index-assisted path != is true exactly on the non-null rows that
\* hold every element of the literal and differ from it
ArrayIndexNotEqual ==
    WholeArrayCompare /\ eval.path = "index" /\ expr.op_type_ = "NotEqual" =>
        \A i \in 1 .. Len(eval.res) :
            eval.res[i] <=>
                /\ DeepCompare(BatchRows[i])
                /\ \A k \in 1 .. Len(expr.val.v) :
                      \E j \in 1 .. Len(segment.data[BatchRows[i] + 1]) :
                          segment.data[BatchRows[i] + 1][j] = expr.val.v[k]

\* ---------------------------------------------------------------- C23
\* the last Eval call was answered by the text index
TextMatched == Evaluated /\ eval.ret = "vector" /\ eval.path = "text"

\* C23: after a text or phrase match the materialised result and its valid
\* bitmap have length active_count, the rows the text index holds keep the
\* index's match and is_not_null values, every row at or beyond the index's
\* row count is false in both, and the call returns its batch's slice of them
C23_TextIndexTailIsFalse ==
    TextMatched =>
        /\ Len(expr.cached_match_res_) = expr.active_count_
        /\ Len(expr.cached_index_chunk_valid_res_) = expr.active_count_
        /\ \A r \in 1 .. expr.active_count_ :
              IF r <= segment.text_rows
              THEN /\ expr.cached_match_res_[r] = MatchQuery(expr.val)[r]
                   /\ expr.cached_index_chunk_valid_res_[r] = TextIsNotNull[r]
              ELSE /\ ~expr.cached_match_res_[r]
                   /\ ~expr.cached_index_chunk_valid_res_[r]
        /\ Len(eval.res) = Len(BatchRows) /\ Len(eval.valid) = Len(BatchRows)
        /\ \A i \in 1 .. Len(BatchRows) :
              /\ eval.res[i] = expr.cached_match_res_[BatchRows[i] + 1]
              /\ eval.valid[i] = expr.cached_index_chunk_valid_res_[BatchRows[i] + 1]

\* a column of three non-null rows whose index holds the first, matching, row:
\* the whole-column batch returns the match and two false rows, all three
\* bits of the tail invalid
C23_Witness ==
    /\ TextMatched
    /\ expr.active_count_ = 3 /\ segment.text_rows = 1
    /\ \A r \in 1 .. 3 : segment.valid_data[r]
    /\ eval.res = <<TRUE, FALSE, FALSE>>
    /\ eval.valid = <<TRUE, FALSE, FALSE>>

\* ---------------------------------------------------------------- C24
\* the last Eval call was a phrase match that reached ExecTextMatch
PhraseCall ==
    /\ Evaluated /\ eval.input = Nullptr
    /\ segment.data_type_ = "VARCHAR" /\ expr.op_type_ = "PhraseMatch"

\* the slop of the plan, 0 when the plan carries none
GivenSlop == IF Len(expr.extra_values_) > 0 THEN expr.extra_values_[1] ELSE WideZero

SlopInRange == ~WideLess(GivenSlop, WideZero) /\ ~WideLess(UINT32_MAX, GivenSlop)

\* the call handed a query to the text index
QueriedTextIndex == expr.index_queries = eval.before.index_queries + 1

\* C24: a phrase match whose slop is below 0 or above UINT32_MAX fails with
\* InvalidParameter, the text index not queried, nothing materialised and the
\* batch cursor not moved; with a slop in [0, UINT32_MAX] the call does not
\* fail, a first non-empty batch queries the index, and the index receives
\* the slop unchanged, 0 when the plan carries none
C24_SlopRange ==
    PhraseCall =>
        IF SlopInRange
        THEN /\ eval.ret # "throw"
             /\ (eval.before.cached_match_res_ = NoBitmap /\ eval.ret = "vector")
                    => QueriedTextIndex
             /\ QueriedTextIndex => expr.index_slop = GivenSlop
        ELSE /\ eval.ret = "throw" /\ eval.error = "InvalidParameter"
             /\ expr.index_queries = eval.before.index_queries
             /\ expr.cached_match_res_ = NoBitmap
             /\ expr.current_data_global_pos_ = eval.before.current_data_global_pos_

\* a slop of UINT32_MAX + 1 is refused
C24_Witness ==
    /\ PhraseCall
    /\ GivenSlop = <<65536, 0>>
    /\ eval.error = "InvalidParameter"
    /\ expr.index_queries = 0

\* ---------------------------------------------------------------- C25
\* the last bulk call was made on a column whose class does not override the
\* operation
UnsupportedBulkCall == eval.method \in BulkMethods /\ eval.method \notin segment.overrides

\* C25: a bulk operation called on a column that does not override it fails
\* with Unsupported and invokes the caller's callback for no row
C25_UnsupportedBulkThrows ==
    UnsupportedBulkCall =>
        /\ eval.ret = "throw" /\ eval.error = "Unsupported"
        /\ eval.callbacks = <<>>

\* BulkArrayAt on two rows of a primitive column
C25_Witness ==
    /\ UnsupportedBulkCall
    /\ eval.method = "BulkArrayAt" /\ segment.data_type_ = "INT32"
    /\ eval.count = 2
    /\ eval.error = "Unsupported" /\ eval.callbacks = <<>>

\* ---------------------------------------------------------------- C26
\* caller t is inside RunLoad
InRunLoad(t) == pc[t] \in {"reserve", "reserve_wait", "get_cells", "set_cell", "catch", "release"}

\* the step is the pin() of caller t on cell c
PinStep(t, c) == pc[t] = "pin" /\ futures[t][c] = "none" /\ futures'[t][c] # "none"

\* cell c is neither loaded nor being loaded: its pin() answers need_load
NobodyLoads(c) == state[c] \in {"NOT_LOADED", "ERROR"}

\* every pin() adds the cell and its size exactly when it answered need_load;
\* the pin loop ends in RunLoad exactly when some cell needs loading; a
\* reservation that succeeds debits the sum of the sizes of those cells
ReservesNeedLoadOnly ==
    \A t \in Tasks :
        /\ \A c \in Cells :
              PinStep(t, c) =>
                  /\ need_load_cids'[t] =
                        need_load_cids[t] \cup (IF NobodyLoads(c) THEN {c} ELSE {})
                  /\ resource_needed'[t] =
                        Plus(resource_needed[t], IF NobodyLoads(c) THEN EstSize(c) ELSE Zero)
        /\ (pc[t] = "pin" /\ pc'[t] # "pin") =>
              /\ pc'[t] = IF need_load_cids'[t] = {} THEN "collect" ELSE "reserve"
              /\ used' = used /\ get_calls' = get_calls
        /\ ReserveReturnsTrue(t) =>
              /\ used' = Plus(Minus(used, UnloadedNow), SumSize(need_load_cids[t]))
              /\ own_debit'[t] = SumSize(need_load_cids[t])

\* C26: the amount a pin call reserves is the sum of the estimated sizes of
\* exactly the cells for which the call received need_load = true; a cell
\* already LOADED or being loaded by another call adds nothing; a call none of
\* whose cells needs loading makes no reservation and no Translator call
C26_ReservesNeedLoadSizes ==
    /\ [](\A t \in Tasks :
            /\ resource_needed[t] = SumSize(need_load_cids[t])
            /\ InRunLoad(t) => need_load_cids[t] # {}
            /\ need_load_cids[t] = {} => own_debit[t] = Zero /\ results[t] = {})
    /\ [][ReservesNeedLoadOnly]_vars

\* a call for both cells, one of them being loaded by another call, has
\* reserved the size of the other cell only and is about to call the Translator
C26_Witness ==
    \E t, u \in Tasks :
        /\ t # u /\ InRunLoad(u) /\ need_load_cids[u] = {0}
        /\ pc[t] = "get_cells" /\ cids[t] = {0, 1}
        /\ need_load_cids[t] = {1}
        /\ resource_needed[t] = EstSize(1) /\ own_debit[t] = EstSize(1)

\* ---------------------------------------------------------------- C27
\* the position of a caller inside one pin call, in the order of the code
StepRank(p) ==
    CASE p = "pin" -> 1
      [] p = "reserve" -> 2
      [] p = "reserve_wait" -> 3
      [] p = "get_cells" -> 4
      [] p \in {"set_cell", "catch"} -> 5
      [] p = "release" -> 6
      [] p = "collect" -> 7
      [] OTHER -> 8

\* the step is a get_cells call of caller t, returning or throwing
TranslatorCall(t) == pc[t] = "get_cells" /\ (pc'[t] # pc[t] \/ results'[t] # results[t])

\* inside a call the caller only moves forward; the reservation is entered
\* from the finished pin loop; get_cells is entered from a reservation that
\* succeeded; a get_cells call is made with the reservation held, moves the
\* caller on, and answers for the whole need-load set
PinCallOrdered ==
    \A t \in Tasks :
        /\ (pc[t] \notin {"idle", "holding"} /\ pc'[t] # "idle") =>
              StepRank(pc'[t]) >= StepRank(pc[t])
        /\ (pc'[t] \in {"reserve", "reserve_wait"} /\ pc[t] \notin {"reserve", "reserve_wait"}) =>
              pc[t] = "pin" /\ \A c \in cids[t] : futures'[t][c] # "none"
        /\ (pc'[t] = "get_cells" /\ pc[t] # "get_cells") =>
              /\ pc[t] \in {"reserve", "reserve_wait"}
              /\ Covers(limit, used') /\ own_debit'[t] = resource_needed[t]
        /\ TranslatorCall(t) =>
              /\ own_debit[t] = resource_needed[t] /\ ~reserve_resource_failure[t]
              /\ pc'[t] \in {"set_cell", "catch"}
              /\ pc'[t] = "set_cell" => need_load_cids[t] \subseteq results'[t]
              /\ pc'[t] = "catch" => catch_cids'[t] = need_load_cids[t]
              /\ need_load_cids'[t] = need_load_cids[t]

\* C27: within one pin call pin() has been called on every involved cell
\* before the reservation or the load starts, get_cells is called only after
\* the reservation has succeeded, and get_cells is called at most once, for
\* the whole need-load set
C27_PinCallOrdered ==
    /\ [](\A t \in Tasks : InRunLoad(t) => \A c \in cids[t] : futures[t][c] # "none")
    /\ [][PinCallOrdered]_vars

\* one get_cells call has answered for both cells of a call that pinned both
\* and reserved the sum of their sizes
C27_Witness ==
    \E t \in Tasks :
        /\ pc[t] = "set_cell"
        /\ cids[t] = {0, 1} /\ need_load_cids[t] = {0, 1}
        /\ results[t] = {0, 1}
        /\ own_debit[t] = Plus(EstSize(0), EstSize(1))
        /\ \A c \in Cells : pin_count[c] >= 1

\* ---------------------------------------------------------------- C28
\* the cells unloaded by the step
EvictedNow == {c \in Cells : state[c] = "LOADED" /\ state'[c] = "NOT_LOADED"}

\* the place of cell c in list l, 0 when it is not there
PlaceIn(l, c) == IF c \in SeqSet(l) THEN CHOOSE i \in 1 .. Len(l) : l[i] = c ELSE 0

\* the step is the first attempt of caller t's reservation
ReserveStep(t) == pc[t] = "reserve" /\ pc'[t] # "reserve"

\* the walk of evict_until in a reservation of caller t: nothing when the
\* need fits; otherwise the unpinned cells of the list from its least recently
\* used end, none left out, up to the first cell with which the freed total
\* covers the deficit, or all of them when it never does
EvictsInLruOrder(t) ==
    LET at_least == Deficit(used, resource_needed[t])
        last == CHOOSE c \in EvictedNow : \A d \in EvictedNow : PlaceIn(lru, d) <= PlaceIn(lru, c)
    IN  /\ Fits(used, resource_needed[t]) => EvictedNow = {}
        /\ \A c \in EvictedNow :
              /\ c \in SeqSet(lru) /\ pin_count[c] = 0
              /\ \A i \in 1 .. PlaceIn(lru, c) : pin_count[lru[i]] = 0 => lru[i] \in EvictedNow
        /\ \/ Covers(SumSize(EvictedNow), at_least)
           \/ EvictedNow = {c \in SeqSet(lru) : pin_count[c] = 0}
        /\ EvictedNow # {} => ~Covers(SumSize(EvictedNow \ {last}), at_least)
        /\ lru' = SeqWithout(lru, EvictedNow)

\* a cell whose last pin is dropped enters the list behind every cell that
\* was in it
TouchedIsLast ==
    \A c \in Cells :
        (pin_count[c] > 0 /\ pin_count'[c] = 0 /\ state'[c] = "LOADED") =>
            /\ c \in SeqSet(lru')
            /\ \A d \in SeqSet(lru) : PlaceIn(lru', d) < PlaceIn(lru', c)

\* C28: evict_until unloads cells strictly in LRU order from the least
\* recently used, leaves out no unpinned cell on its way, never unloads a
\* pinned cell, and stops as soon as the freed total reaches at_least in every
\* dimension or the list is exhausted; a touched cell is the last candidate
C28_EvictsInLruOrder ==
    [][TouchedIsLast /\ \A t \in Tasks : ReserveStep(t) => EvictsInLruOrder(t)]_vars

\* with the cells of LruSizeA and LruSizeB loaded and unpinned, the larger the
\* least recently used, a reservation for the third cell has unloaded the
\* larger cell only and left the other in the list
C28_Witness ==
    \E t \in Tasks :
        /\ pc[t] = "get_cells" /\ need_load_cids[t] = {2}
        /\ own_evicted[t] = EstSize(0) /\ state[0] = "NOT_LOADED"
        /\ lru = <<1>> /\ state[1] = "LOADED"

\* ---------------------------------------------------------------- C29
\* a cell in ERROR has no pin and nobody waits for it or holds it
ErrorCellIsFree ==
    \A c \in Cells : state[c] = "ERROR" => pin_count[c] = 0 /\ Attached(c) = {}

\* the pin() of a caller on a cell in ERROR starts a new load of which the
\* caller is the loader; the set_cell of a loader on its cell ends it in LOADED
\* with the loader's payload and resolves the loader's future
ErrorCellIsLoadedAgain ==
    \A t \in Tasks : \A c \in Cells :
        /\ (PinStep(t, c) /\ state[c] = "ERROR") =>
              /\ state'[c] = "LOADING" /\ pin_count'[c] = 1
              /\ futures'[t][c] = "pending"
              /\ c \in need_load_cids'[t]
              /\ resource_needed'[t] = Plus(resource_needed[t], EstSize(c))
        /\ (pc[t] = "set_cell" /\ c \in results[t] \cap need_load_cids[t]
              /\ c \notin results'[t]) =>
              /\ state'[c] = "LOADED" /\ futures'[t][c] = "ok"
              /\ state[c] = "LOADING" => cell_'[c] = t

\* C29: a load failure is not sticky: a cell in ERROR has its pin count reset
\* and its awaiters failed; the next pin on it makes the pinner the loader
\* (need_load = true) of a cell that is loading again, so that a reservation
\* and a Translator call follow, and when that load succeeds the cell is LOADED
C29_ErrorIsNotSticky == []ErrorCellIsFree /\ [][ErrorCellIsLoadedAgain]_vars

\* a call that failed on cell 0 has not yet returned its error, and the cell
\* has since been loaded by the other caller
C29_Witness ==
    \E t, u \in Tasks :
        /\ t # u
        /\ pc[u] = "collect" /\ futures[u][0] = "error"
        /\ state[0] = "LOADED" /\ cell_[0] = t /\ futures[t][0] = "ok"
        /\ pc[t] \in {"collect", "holding"}

\* ---------------------------------------------------------------- C30
\* the step is a set_cell of caller t on cell c
SetCellStep(t, c) == pc[t] = "set_cell" /\ c \in results[t] /\ c \notin results'[t]

\* C30: set_cell on a cell that is already LOADED changes nothing: the payload
\* stays the first writer's, the state, the pin counts, the budget's used and
\* the LRU list are as before, and no future is resolved
C30_SetCellOnLoadedIsNoOp ==
    [][\A t \in Tasks : \A c \in Cells :
          (SetCellStep(t, c) /\ state[c] = "LOADED") =>
              /\ cell_' = cell_ /\ state' = state
              /\ pin_count' = pin_count
              /\ used' = used /\ lru' = lru
              /\ futures' = futures]_vars

\* two loads, of cells 0 and 1, have both fetched cell OverReadCid as well and
\* both have stored all they fetched: the cell holds the payload of one of
\* them, is unpinned and in the list, and was debited once
C30_Witness ==
    \E t, u \in Tasks :
        /\ t # u
        /\ pc[t] = "collect" /\ need_load_cids[t] = {0} /\ results[t] = {}
        /\ pc[u] = "collect" /\ need_load_cids[u] = {1} /\ results[u] = {}
        /\ state[OverReadCid] = "LOADED" /\ cell_[OverReadCid] = t
        /\ pin_count[OverReadCid] = 0 /\ lru = <<OverReadCid>>
        /\ used = RU(OverReadLimit, 0)

\* ---------------------------------------------------------------- C31
\* the last Eval call was answered by a data-scan kernel under an upstream
\* bitmap_input
GatedDataScan ==
    /\ Evaluated /\ eval.ret = "vector" /\ eval.path = "data"
    /\ eval.bitmap_input # NoBitmap

\* row i of the batch was skipped and carries the bits the caller initialised
Untouched(i) == ~eval.res[i] /\ eval.valid[i]

\* C31: in every data-scan kernel a row whose bitmap_input bit is 0 is
\* skipped and keeps the bits the caller initialised (result 0, valid 1),
\* whatever the row's value or nullness, the bit consulted for row i of a
\* sub-batch being the one at processed_cursor + i
C31_SkippedRowsUntouched ==
    GatedDataScan =>
        \A i \in 1 .. Len(eval.res) : ~eval.bitmap_input[i] => Untouched(i)

\* The same for the skipped rows that are not null, in every kernel.
SkippedNonNullRowsUntouched ==
    GatedDataScan =>
        \A i \in 1 .. Len(eval.res) :
            (~eval.bitmap_input[i] /\ ~IsNullRow(BatchRows[i])) => Untouched(i)

\* The same for every skipped row of the primitive kernel.
SkippedRowsUntouchedPrimitive ==
    (GatedDataScan /\ segment.data_type_ \in PrimitiveTypes) =>
        \A i \in 1 .. Len(eval.res) : ~eval.bitmap_input[i] => Untouched(i)

\* In the JSON and ARRAY kernels a skipped null row is marked: result 0, valid 0.
SkippedNullRowsMarked ==
    (GatedDataScan /\ segment.data_type_ \in {"JSON", "ARRAY"}) =>
        \A i \in 1 .. Len(eval.res) :
            (~eval.bitmap_input[i] /\ IsNullRow(BatchRows[i]))
            => (~eval.res[i] /\ ~eval.valid[i])

\* the data scan of the rows of the last Eval call with no upstream bitmap
UngatedScanOfBatch ==
    LET n == Len(BatchRows)
    IN  IF eval.input # Nullptr
        THEN ProcessDataByOffsets(segment.data_type_, expr.op_type_, expr.val, NoBitmap,
                                  eval.input, AllBits(n, FALSE), AllBits(n, TRUE), 0)
        ELSE ProcessDataChunks(segment.data_type_, expr.op_type_, expr.val, NoBitmap,
                               eval.before.current_data_global_pos_,
                               AllBits(n, FALSE), AllBits(n, TRUE), 0)

\* The rows whose bit is 1 carry the bits of the same scan without bitmap_input:
\* the bit of row i of a sub-batch is read at processed_cursor + i.
GateReadAtProcessedCursor ==
    GatedDataScan =>
        LET same(scan) ==
                \A i \in 1 .. Len(eval.res) :
                    eval.bitmap_input[i] =>
                        (eval.res[i] = scan.res[i] /\ eval.valid[i] = scan.valid_res[i])
        IN  same(UngatedScanOfBatch)

\* ---------------------------------------------------------------- C32
\* the last Eval call was answered by the JSON data scan
JsonDataScan ==
    /\ Evaluated /\ eval.ret = "vector" /\ eval.path = "data"
    /\ segment.data_type_ = "JSON"

\* resolving the pointer of the document to the literal's type fails: the key
\* is missing or holds a value of another type (a number of either width
\* serves a numeric literal, after the retry as double)
LookupFails(doc, val) ==
    CASE val.case = "kBoolVal" -> doc.t # "bool"
      [] val.case \in {"kInt64Val", "kFloatVal"} -> doc.t \notin {"int", "double"}
      [] val.case = "kStringVal" -> doc.t # "string"
      [] val.case = "kArrayVal" -> doc.t # "array"

\* row i of the batch was evaluated, is not null and its lookup failed
FailedLookupRow(i) ==
    /\ Scanned(i)
    /\ ~IsNullRow(BatchRows[i])
    /\ LookupFails(segment.data[BatchRows[i] + 1], expr.val)

\* C32: in the JSON data scan a non-null row on which resolving the pointer
\* to the literal's type fails is false for every op except != and true for
\* !=, for bool, int64, double, string and JSON-array literals alike
C32_LookupErrorIsDistinct ==
    JsonDataScan =>
        \A i \in 1 .. Len(eval.res) :
            FailedLookupRow(i) => (eval.res[i] <=> (expr.op_type_ = "NotEqual"))

\* The same for the literals that are not JSON arrays.
ScalarLookupErrorIsDistinct ==
    (JsonDataScan /\ expr.val.case # "kArrayVal") =>
        \A i \in 1 .. Len(eval.res) :
            FailedLookupRow(i) => (eval.res[i] <=> (expr.op_type_ = "NotEqual"))

\* Against a JSON-array literal a failed lookup is false for every op, != included.
ArrayLookupErrorIsFalse ==
    (JsonDataScan /\ expr.val.case = "kArrayVal" /\ eval.input = Nullptr) =>
        \A i \in 1 .. Len(eval.res) : FailedLookupRow(i) => ~eval.res[i]

\* ---------------------------------------------------------------- C33
\* the last Eval call was answered from a cached full-column bitmap
CachedPaths == {"text", "ngram", "jsonkey"}
CachedPathBatch == Evaluated /\ eval.ret = "vector" /\ eval.path \in CachedPaths

\* the full-column bitmap of a path, in the members e of the expression
CachedBitmap(e, path) ==
    CASE path = "text" -> e.cached_match_res_
      [] path = "ngram" -> e.cached_ngram_match_res_
      [] path = "jsonkey" -> e.cached_index_chunk_res_

\* the batch is the slice of the cached bitmap from the position the call
\* found, the cursor has moved by the batch, and one query has been made
SlicesCachedBitmap ==
    CachedPathBatch =>
        LET from == eval.before.current_data_global_pos_
            n == Len(eval.res)
            cached == CachedBitmap(expr, eval.path)
        IN  /\ eval.input = Nullptr
            /\ Len(cached) = expr.active_count_
            /\ n > 0
            /\ n = Min(expr.batch_size_, expr.active_count_ - from)
            /\ eval.res = SubSeq(cached, from + 1, from + n)
            /\ expr.current_data_global_pos_ = from + n
            /\ expr.index_queries = 1

\* a step leaves a bitmap that is cached as it is and asks the index no more;
\* the cursor moves only by the batch the step returns, from where it was
CachedOnce ==
    /\ \A path \in CachedPaths :
           CachedBitmap(expr, path) # NoBitmap =>
               /\ CachedBitmap(expr', path) = CachedBitmap(expr, path)
               /\ expr'.index_queries = expr.index_queries
    /\ expr'.current_data_global_pos_ # expr.current_data_global_pos_ =>
           /\ eval'.ret = "vector" /\ eval'.before = expr
           /\ expr'.current_data_global_pos_
                  = expr.current_data_global_pos_ + Len(eval'.res)

\* C33: on the text-match, n-gram and JSON-key index paths the full-column
\* bitmap is computed by at most one index query per expression and never
\* modified afterwards, and each batch is the slice of it at the current
\* global position, the cursor moving by exactly the rows returned: the
\* batches concatenated are the cached bitmap over [0, active_count), no row
\* skipped and none repeated
C33_BatchesSliceCachedBitmap == []SlicesCachedBitmap /\ [][CachedOnce]_vars

\* the last batch of a column, after an earlier one, both sliced from the
\* bitmap of the one query; the column has a matching row
C33_Witness ==
    /\ CachedPathBatch
    /\ eval.before.current_data_global_pos_ > 0
    /\ expr.current_data_global_pos_ = expr.active_count_
    /\ expr.index_queries = 1
    /\ \E i \in 1 .. expr.active_count_ : CachedBitmap(expr, eval.path)[i]

\* ---------------------------------------------------------------- C34
\* the last Eval call carried no offset input and did not throw
BatchCall == Evaluated /\ eval.input = Nullptr /\ eval.ret # "throw"

\* the rows the column still had to return when the last call was made
RowsLeft == eval.before.active_count_ - eval.before.current_data_global_pos_

\* the last call returned the next min(batch_size, rows left) rows, as two
\* bitmaps of that length, and the cursor moved by them
ReturnedNextRows ==
    LET n == Min(eval.before.batch_size_, RowsLeft)
    IN  /\ eval.ret = "vector"
        /\ Len(eval.res) = n /\ Len(eval.valid) = n
        /\ expr.current_data_global_pos_ = eval.before.current_data_global_pos_ + n

\* C34: for Eval calls without offset input, on every path including the
\* overflow short-circuit, each returned result and valid bitmap have the
\* same length min(batch_size, active_count minus rows already returned),
\* the cursor moves by it (so that the lengths sum to active_count), and once
\* all rows have been returned every further call returns no vector (null)
\* rather than an empty one
C34_BatchLengths ==
    BatchCall => IF RowsLeft = 0 THEN eval.ret = "nullptr" ELSE ReturnedNextRows

\* The same while rows are left, on every path.
BatchLengthsWhileRowsLeft == (BatchCall /\ RowsLeft > 0) => ReturnedNextRows

\* Once all rows have been returned, every path but the overflow short-circuit
\* returns null.
ExhaustedReturnsNull ==
    (BatchCall /\ RowsLeft = 0 /\ eval.path # "overflow") => eval.ret = "nullptr"

\* Once all rows have been returned, the overflow short-circuit returns a
\* vector of two empty bitmaps.
OverflowExhaustedReturnsEmpty ==
    (BatchCall /\ RowsLeft = 0 /\ eval.path = "overflow") =>
        /\ eval.ret = "vector"
        /\ Len(eval.res) = 0 /\ Len(eval.valid) = 0
        /\ expr.current_data_global_pos_ = eval.before.current_data_global_pos_

\* ---------------------------------------------------------------- C35
\* the alive wrappers that hold a handle on accessor k
HoldersOf(ws, k) == {w \in Wrappers : ws[w].alive /\ ws[w].raii_ = k}

\* a cell is pinned once for every accessor on it that some alive wrapper
\* holds, and an accessor no wrapper holds is gone with its pin
PinsFollowWrappers ==
    /\ \A k \in 1 .. MaxAccessors :
           segment.accessors[k].use_count = Cardinality(HoldersOf(expr, k))
    /\ \A c \in WrapperCells :
           segment.pin_count[c] =
               Cardinality({k \in 1 .. MaxAccessors :
                               segment.accessors[k].cell = c /\ HoldersOf(expr, k) # {}})

\* the step is the operation op
WrapperStep(op) == eval'.op = op /\ eval'.seq = eval.seq + 1

\* transform hands the pin of the wrapper it is called on to the wrapper it
\* returns, with the transformed value
TransformHandsOverPin ==
    WrapperStep("transform") =>
        /\ expr'[eval'.a].alive
        /\ expr'[eval'.a].raii_ = expr[eval'.b].raii_
        /\ expr'[eval'.a].content_ = Transformer(expr[eval'.b].content_)
        /\ expr'[eval'.b].raii_ = 0
        /\ segment' = segment

\* the pin wrapper a alone held before b was move-assigned into it
OldPinOf(a, b) ==
    IF a # b /\ expr[a].raii_ # 0 /\ HoldersOf(expr, expr[a].raii_) = {a}
    THEN expr[a].raii_ ELSE 0

\* move-assigning b into a releases the pin that a alone held, by the end of
\* the assignment
MoveAssignReleasesOldPin ==
    WrapperStep("move_assign") =>
        LET k == OldPinOf(eval'.a, eval'.b)
        IN  k # 0 =>
                /\ segment'.accessors[k].use_count = 0
                /\ segment'.pin_count[segment.accessors[k].cell]
                       = segment.pin_count[segment.accessors[k].cell] - 1

\* C35: the cells behind a PinWrapper's value stay pinned for as long as any
\* wrapper obtained from it by copy, move or transform is alive and the pin
\* is released once the last such wrapper is gone; transform hands the pin to
\* the returned wrapper, and move-assigning wrapper b into wrapper a releases
\* the pin a held before the assignment no later than its end
C35_PinLivesWithWrappers ==
    []PinsFollowWrappers /\ [][TransformHandsOverPin /\ MoveAssignReleasesOldPin]_vars

\* Pins are held by alive wrappers only, and transform hands the pin over.
WrappersHoldThePins == []PinsFollowWrappers /\ [][TransformHandsOverPin]_vars

\* Move assignment swaps the two wrappers: b leaves the assignment holding
\* what a held, and no pin is released.
MoveAssignSwaps ==
    [][WrapperStep("move_assign") =>
           /\ expr'[eval'.a].raii_ = expr[eval'.b].raii_
           /\ expr'[eval'.b].raii_ = expr[eval'.a].raii_
           /\ segment' = segment]_vars

\* ------------------------------------------------------------------ C36
\* A call is running from its first pin() to the resolution of collect(futures).
InCall(t) == pc[t] \notin {"idle", "holding"}

\* C36: under the fair scheduling of the callers, with a finite reservation timeout and
\* a Translator that returns every requested cell or throws, every pin call ends, with
\* an accessor (holding) or with an error (idle), whatever the other callers pin or
\* hold; and no cell stays in LOADING forever.
C36_PinCallCompletes ==
    /\ \A t \in Tasks : InCall(t) ~> ~InCall(t)
    /\ \A c \in 0 .. (NumCells - 1) : (state[c] = "LOADING") ~> (state[c] # "LOADING")

\* One caller holds the pin of a loaded cell that fills the budget while another waits
\* for a reservation that only the eviction of that cell could satisfy.
C36_Witness ==
    \E t \in Tasks : \E u \in Tasks \ {t} :
        /\ pc[t] = "holding"
        /\ \E c \in cids[t] : state[c] = "LOADED" /\ pin_count[c] > 0
        /\ pc[u] = "reserve_wait"
        /\ ~Fits(used, resource_needed[u])
        /\ need_load_cids[u] # {}

\* Two callers overlap on a cell: one loads it, the other waits for that load.
OverlappingCallers ==
    \E t \in Tasks : \E u \in Tasks \ {t} : \E c \in Cells :
        /\ c \in need_load_cids[t] /\ InCall(t)
        /\ c \in cids[u] /\ futures[u][c] = "pending" /\ c \notin need_load_cids[u]
        /\ state[c] = "LOADING"

\* ------------------------------------------------------------------ C37
\* The cid set of the call holds a cid past the last cell.
HasOutOfRange(cs) == \E c \in cs : c >= num_cells

\* The call pin_cells(uids) of caller t is made in this step and throws OutOfRange.
OutOfRangeCall(t, uids) ==
    /\ HasOutOfRange(involved_cids(uids))
    /\ PinCells(t, uids)

\* C37: a pin call with a cid >= num_cells among its cids throws before any pin(): no
\* cell changes state, pin count or payload, the budget and the LRU list are as they
\* were, the Translator is not called, and the caller is left without futures, cids or
\* accessor, also when other cids of the call are in range.
C37_OutOfRangePinsNothing ==
    [][\A t \in Tasks : \A uids \in UidSeqs :
          OutOfRangeCall(t, uids) =>
              /\ UNCHANGED <<cellVars, budgetVars, taskVars>>
              /\ UNCHANGED <<own_debit, own_evicted, get_calls>>
              /\ pc'[t] = "idle"]_vars

\* An out-of-range call has been made with a cid in range beside the bad one, on a slot
\* where pinning that cid would have changed a cell.
MixedOutOfRangeCall(t, uids) ==
    /\ OutOfRangeCall(t, uids)
    /\ \E c \in involved_cids(uids) : c < num_cells /\ state[c] = "NOT_LOADED"

\* The state after a call: every caller idle, nothing pinned or loaded, one call made.
C37_Witness ==
    /\ calls = 1
    /\ \A t \in Tasks : pc[t] = "idle" /\ cids[t] = {}
    /\ \A c \in Cells : state[c] = "NOT_LOADED" /\ pin_count[c] = 0
    /\ used = Zero

\* The mixed out-of-range call is a step of the system.
C37_MixedCallHappens == [][~ \E t \in Tasks : \E uids \in UidSeqs : MixedOutOfRangeCall(t, uids)]_vars

\* ---------------------------------------------------------------- C38
\* the last Eval call was answered by the JSON data scan over an offset input
JsonOffsetScan == JsonDataScan /\ eval.input # Nullptr

\* the bits the JSON kernel gives the document of row r (0-based) when that
\* document is all it is handed
DocumentBits(r) ==
    execute_sub_batchJson(GetTypeOf(expr.val), expr.op_type_, <<segment.data[r + 1]>>,
                          IF segment.nullable THEN <<segment.valid_data[r + 1]>> ELSE NoBitmap,
                          Nullptr, 1, <<FALSE>>, <<TRUE>>, expr.val, NoBitmap, 0)

\* output row i carries the bits of the document at offsets[i]
ReadsOwnDocument(i) ==
    LET same(bits) == eval.res[i] = bits.res[1] /\ eval.valid[i] = bits.valid_res[1]
    IN  same(DocumentBits(eval.input[i]))

\* C38: in the JSON data scan over an offset input, output row i is computed
\* from the document at offsets[i], for every literal type and every op, = and
\* != against a JSON-array literal included: the null test and the comparison
\* of a row read the same document
C38_OffsetRowsReadOffsetDocument ==
    JsonOffsetScan => \A i \in 1 .. Len(eval.res) : Scanned(i) => ReadsOwnDocument(i)

\* The same for the literals that are not JSON arrays.
ScalarOffsetRowsReadOffsetDocument ==
    (JsonOffsetScan /\ expr.val.case # "kArrayVal") =>
        \A i \in 1 .. Len(eval.res) : Scanned(i) => ReadsOwnDocument(i)

\* Against a JSON-array literal the null test reads the document at offsets[i]:
\* a row whose offset names a null document is invalid and false.
ArrayOffsetNullTestReadsOffset ==
    (JsonOffsetScan /\ expr.val.case = "kArrayVal") =>
        \A i \in 1 .. Len(eval.res) :
            IsNullRow(eval.input[i]) => (~eval.res[i] /\ ~eval.valid[i])

\* Against a JSON-array literal the = and != of a non-null row compare the
\* document at position i of the sub-batch, the first of the chunk that holds
\* offsets[i], since an offset input is scanned one row per sub-batch.
ArrayOffsetRowsReadSubBatchPosition ==
    (JsonOffsetScan /\ expr.val.case = "kArrayVal"
        /\ expr.op_type_ \in {"Equal", "NotEqual"}) =>
        \A i \in 1 .. Len(eval.res) :
            (Scanned(i) /\ ~IsNullRow(eval.input[i])) =>
                LET doc == segment.data[ChunkFirst(eval.input[i]) + 1]
                IN  eval.res[i] <=>
                        (doc.t = "array"
                         /\ (CompareTwoJsonArray(doc, expr.val)
                                <=> (expr.op_type_ = "Equal")))

\* ------------------------------------------------------- packed reader
\* segment is the storage side: whether the filesystem singleton holds a
\* filesystem, the number of record batches in the files, the reader that is
\* alive (0: none) and how many batches it has returned.  expr is the caller's
\* side: the three output slots, 0 being whatever the caller left in them.
\* eval is the last call: its name, what happened inside, the CStatus code
\* returned, the slots before the call, and the number of calls so far.
MaxBatches == 2
MaxReaderCalls == 5

\* a process that aborted makes no further call
Aborted == eval.status = "abort"

\* the codes an exception caught by `catch (std::exception& e)` may carry
ExceptionCodes == {"UnexpectedError", "FileReadFailed"}

\* the handles of the objects a call allocates: fresh in every call
ReaderHandle == eval.seq + 1
ArrayHandle == 100 + eval.seq + 1
SchemaHandle == 200 + eval.seq + 1

\* a call returns (or aborts the process): its record, the slots, the storage
ReaderDone(op, outcome, status, slots, storage) ==
    /\ ~Aborted
    /\ eval.seq < MaxReaderCalls
    /\ eval' = [op |-> op, outcome |-> outcome, status |-> status, before |-> expr,
                seq |-> eval.seq + 1]
    /\ expr' = slots
    /\ segment' = storage
    /\ UNCHANGED slotVars

\* NewPackedReader: a null filesystem is a FileReadFailed status; a schema
\* that cannot be imported ends the process (ValueOrDie); an exception of the
\* reader's constructor is caught and returned; only then is the slot written.
NewPackedReader(import, ctor, code) ==
    IF ~segment.fs
    THEN ReaderDone("NewPackedReader", "no_filesystem", "FileReadFailed", expr, segment)
    ELSE IF import = "die"
    THEN ReaderDone("NewPackedReader", "import_died", "abort", expr, segment)
    ELSE IF ctor = "throw"
    THEN ReaderDone("NewPackedReader", "threw", code, expr, segment)
    ELSE ReaderDone("NewPackedReader", "created", "Success",
                    [expr EXCEPT !.c_packed_reader = ReaderHandle],
                    [segment EXCEPT !.reader = ReaderHandle, !.pos = 0])

\* Mutant of ReadNext: the batch is exported straight into the caller's slots.
ReadNextExportsInPlace(read, export, code) ==
    /\ segment.reader # 0 /\ expr.c_packed_reader = segment.reader
    /\ IF read = "error"
       THEN ReaderDone("ReadNext", "read_failed", "FileReadFailed", expr, segment)
       ELSE IF read = "throw"
       THEN ReaderDone("ReadNext", "threw", code, expr, segment)
       ELSE IF segment.pos = segment.num_batches
       THEN ReaderDone("ReadNext", "eof", "Success", expr, segment)
       ELSE IF export = "throw"
       THEN ReaderDone("ReadNext", "threw", code, expr,
                       [segment EXCEPT !.pos = @ + 1])
       ELSE ReaderDone("ReadNext", IF export = "error" THEN "export_failed" ELSE "batch",
                       IF export = "error" THEN "FileReadFailed" ELSE "Success",
                       [expr EXCEPT !.out_array = ArrayHandle,
                                    !.out_schema = SchemaHandle],
                       [segment EXCEPT !.pos = @ + 1])

\* ReadNext on the reader the caller got from NewPackedReader: a read status
\* that is not ok is returned as FileReadFailed; a null record batch is the
\* end of the stream; else the batch is exported into a fresh array and schema
\* and, if the export is ok, both slots are written.
ReadNext(read, export, code) ==
    /\ segment.reader # 0 /\ expr.c_packed_reader = segment.reader
    /\ IF read = "error"
       THEN ReaderDone("ReadNext", "read_failed", "FileReadFailed", expr, segment)
       ELSE IF read = "throw"
       THEN ReaderDone("ReadNext", "threw", code, expr, segment)
       ELSE IF segment.pos = segment.num_batches
       THEN ReaderDone("ReadNext", "eof", "Success", expr, segment)
       ELSE IF export = "throw"
       THEN ReaderDone("ReadNext", "threw", code, expr,
                       [segment EXCEPT !.pos = @ + 1])
       ELSE IF export = "error"
       THEN ReaderDone("ReadNext", "export_failed", "FileReadFailed", expr,
                       [segment EXCEPT !.pos = @ + 1])
       ELSE ReaderDone("ReadNext", "batch", "Success",
                       [expr EXCEPT !.out_array = ArrayHandle,
                                    !.out_schema = SchemaHandle],
                       [segment EXCEPT !.pos = @ + 1])

\* CloseReader: Close(), then delete; an exception of Close leaves the reader
\* alive.
CloseReader(close, code) ==
    /\ segment.reader # 0 /\ expr.c_packed_reader = segment.reader
    /\ IF close = "throw"
       THEN ReaderDone("CloseReader", "threw", code, expr, segment)
       ELSE ReaderDone("CloseReader", "closed", "Success", expr,
                       [segment EXCEPT !.reader = 0])

InitPacked ==
    /\ SlotOn(0, "IDENTICAL", Zero, UnitSizes(0), "Disable")
    /\ \E fs \in BOOLEAN, n \in 0 .. MaxBatches :
           segment = [fs |-> fs, num_batches |-> n, reader |-> 0, pos |-> 0]
    /\ expr = [c_packed_reader |-> 0, out_array |-> 0, out_schema |-> 0]
    /\ eval = [op |-> "none", outcome |-> "none", status |-> "none", before |-> expr,
               seq |-> 0]

NextPacked ==
    \E code \in ExceptionCodes :
        \/ \E import \in {"ok", "die"}, ctor \in {"ok", "throw"} :
               NewPackedReader(import, ctor, code)
        \/ \E read \in {"ok", "error", "throw"}, export \in {"ok", "error", "throw"} :
               ReadNext(read, export, code)
        \/ \E close \in {"ok", "throw"} : CloseReader(close, code)

SpecPacked == InitPacked /\ [][NextPacked]_vars

\* ---------------------------------------------------------------- C39
\* the last call left the two output slots of ReadNext as it found them
OutputsUnwritten ==
    /\ expr.out_array = eval.before.out_array
    /\ expr.out_schema = eval.before.out_schema

\* the last call wrote both output slots, with objects it allocated
OutputsWritten ==
    /\ expr.out_array # eval.before.out_array /\ expr.out_array = 100 + eval.seq
    /\ expr.out_schema # eval.before.out_schema /\ expr.out_schema = 200 + eval.seq

\* C39: ReadNext at the end of the stream returns success and writes neither
\* out_array nor out_schema; it writes both, and only then, when it returns
\* success with a batch; when the read or the export fails it returns
\* FileReadFailed with both unwritten.  NewPackedReader leaves *c_packed_reader
\* unwritten whenever it returns a failure status.
C39_OutputsWrittenOnSuccessOnly ==
    /\ eval.op = "ReadNext" =>
          /\ eval.outcome = "eof" => (eval.status = "Success" /\ OutputsUnwritten)
          /\ eval.outcome = "batch" => (eval.status = "Success" /\ OutputsWritten)
          /\ eval.outcome # "batch" => OutputsUnwritten
          /\ eval.outcome \in {"read_failed", "export_failed"} =>
                 (eval.status = "FileReadFailed" /\ OutputsUnwritten)
          /\ eval.status = "Success" => eval.outcome \in {"eof", "batch"}
    /\ eval.op = "NewPackedReader" =>
          /\ eval.status # "Success" => expr.c_packed_reader = eval.before.c_packed_reader
          /\ eval.status = "Success" => expr.c_packed_reader = segment.reader

\* An export failed after an earlier batch had been returned: the slots still
\* hold the array and the schema of that batch.
C39_Witness ==
    /\ eval.op = "ReadNext" /\ eval.outcome = "export_failed"
    /\ eval.status = "FileReadFailed"
    /\ expr.out_array > 100 /\ expr.out_schema > 200

\* The end of the stream is reached after a batch was returned.
EndOfStreamAfterBatch ==
    /\ eval.op = "ReadNext" /\ eval.outcome = "eof"
    /\ expr.out_array > 100

\* NewPackedReader failed while the caller's slot held an earlier reader.
NewReaderFailedOverOld ==
    /\ eval.op = "NewPackedReader" /\ eval.status \notin {"Success", "abort"}
    /\ expr.c_packed_reader # 0

====
